---- MODULE Spec2Model ----
(***************************************************************************)
(* Model of the quest bot's XP and leveling engine (src/unnamed/part_000,  *)
(* the later of the two near-duplicate sources; src/main.py is the same    *)
(* code without the level-role reconciliation).                            *)
(*                                                                         *)
(* Scheduling: one cooperative event loop.  The code between two awaits    *)
(* runs without interruption, so every action below is one such segment    *)
(* of a handler or of a reconciliation task; handlers and tasks interleave *)
(* only where the code awaits.  The sqlite calls are synchronous.          *)
(*                                                                         *)
(* Platform: a role call (add_roles, remove_roles, create_role) takes      *)
(* effect, or fails, when its await completes; guild.roles and             *)
(* member.roles show the effect from then on.                              *)
(***************************************************************************)
EXTENDS Integers, Sequences, FiniteSets, TLC

\* ---------------------------------------------------------------- bounds
Members == {1, 2}
Guilds == {1, 2}
Messages == {1}
ChatMessages == {2}
ChatGuild == 1
CustomRoles == {1, 2}
Amounts == {120, 1000}
RoleXpAmounts == {30}
CreateStops == {1, 3, 11}
Leavers == {2}
MaxEvents == 4
MaxRoleEvents == 2
MaxAssignCommands == 2
PingRoleIds == {11, 21}
ChannelIds == {1, 2, 3}
GuildOrders == {<<1, 2>>, <<2, 1>>}
MaxSetupEvents == 3
MaxStartEvents == 2
OtherRoles == {1, 2, 3, 4, 5}
MaxTotalCalls == 2
MaxRuns == 2
Limits == {0, 1, 2, 10}
BoardRoles == {[m \in Members |-> {}],
               [m \in Members |-> IF m = 1 THEN {1, 3} ELSE {}]}
MaxBoardCalls == 2
MaxNameCalls == 2
FailurePoints == {"select", "update", "commit", "busy"}
MaxStoreEvents == 2
MaxRewardEvents == 4
MaxQuestEvents == 4
GrantChanges ==
    {<<{}, {1}>>, <<{}, {1, 2}>>, <<{1}, {1, 2}>>, <<{}, {3}>>,
     <<{1, 2}, {2}>>, <<{3}, {1, 2, 3}>>, <<{}, {1, 3}>>}
MaxGrantEvents == 2
MaxXp == 11800
MaxLevelCalls == 1

\* ------------------------------------------------------------- constants
Levels == 1..10
QuestReward == 50

LEVEL_THRESHOLDS ==
    <<0, 100, 500, 1200, 2200, 3500, 5100, 7000, 9200, 11700>>

VARIABLES
    users,         \* table users: rows [user_id, guild_id, xp, level], as the
                   \*   connection of the bot reads it
    quests,        \* table quests: rows [message_id, guild_id, completed_users]
    settings,      \* table settings: rows [guild_id, quest_ping_role_id,
                   \*   quest_channel_id, role_xp_assignments]
    quest_ping_role_id,  \* quest_bot.quest_ping_role_id (0 = None)
    quest_channel_id,    \* quest_bot.quest_channel_id (0 = None)
    role_xp_assignments, \* quest_bot.role_xp_assignments: guild -> (role -> xp)
    guildRoles,    \* platform: tier roles "Level n" that exist in a guild
    memberRoles,   \* platform: tier roles a member holds in a guild
    present,       \* platform: <<member, guild>> pairs guild.get_member resolves
    posted,        \* platform: message id -> guild of the quest announcement (0 = unused)
    announcing,    \* add_quest handlers between sending the message and the INSERT
    tasks,         \* update_user_level_role tasks, in creation order
    updates,       \* on_member_update handlers suspended at their await
    events,        \* number of events and commands received so far
    calls,         \* number of update_user_xp calls made so far
    applied,       \* per <<member, guild>>: the deltas that took effect, in order
    lastAdjust,    \* the latest update_user_xp call: arguments, state read, result
    signals,       \* per <<message, member>>: outcomes of the reactions on a stored quest
    ended,         \* the ways reconciliation tasks have ended so far
    failed,        \* <<member, guild>> pairs with a platform failure in a reconciliation
    overlapped,    \* <<member, guild>> pairs with two reconciliations in flight at once
    initRoles,     \* memberRoles as it was initially
    assigning,     \* slash_assign_level_roles handlers suspended at an await
    finished,      \* per guild: what the completed slash_assign_level_roles runs left
    creating,      \* create_level_roles calls suspended at their create_role
    extraRoles,    \* platform: per guild, the tier names that two roles bear
    shown,         \* the latest calculate_total_user_xp call: arguments and result
    sent,          \* the latest answer of a handler to the one who called on it
    board,         \* the latest get_leaderboard call: arguments and result
    showing,       \* leaderboard handlers suspended at their fetch_user
    durable,       \* table users as committed to the database file
    saved,         \* table settings as committed to the database file
    kept           \* table quests as committed to the database file

vars == <<users, quests, settings, quest_ping_role_id, quest_channel_id,
          role_xp_assignments, guildRoles, memberRoles, present, posted,
          announcing, tasks, updates, events, calls, applied,
          lastAdjust, signals, ended, failed, overlapped, initRoles,
          assigning, finished, creating, extraRoles, shown,
          sent, board, showing, durable, saved, kept>>

Pairs == Members \X Guilds

Max(a, b) == IF a >= b THEN a ELSE b

\* ------------------------------------------------------------ level table
RECURSIVE ScanLevel_strict(_, _)
ScanLevel_strict(xp, level) ==
    IF level < 1 THEN 1
    ELSE IF xp > LEVEL_THRESHOLDS[level] THEN level
    ELSE ScanLevel_strict(xp, level - 1)

\* for level in range(10, 0, -1): if xp >= LEVEL_THRESHOLDS[level]: return
\* level -- and return 1 after the loop.
RECURSIVE ScanLevel(_, _)
ScanLevel(xp, level) ==
    IF level < 1 THEN 1
    ELSE IF xp >= LEVEL_THRESHOLDS[level] THEN level
    ELSE ScanLevel(xp, level - 1)

calculate_level_from_9(xp) == ScanLevel(xp, 9)

calculate_level(xp) == ScanLevel(xp, 10)

\* ------------------------------------------------------------- XP ledger
\* SELECT xp, level FROM users WHERE user_id = ? AND guild_id = ?
SelectUser(rows, u, g) == {r \in rows : r.user_id = u /\ r.guild_id = g}

\* user_id INTEGER PRIMARY KEY: a second row with the same user_id is refused,
\* whatever its guild_id (UNIQUE(user_id, guild_id) is implied by it).
InsertRefused(rows, u, g) == \E r \in rows : r.user_id = u

NewUserRow(u, g) == [user_id |-> u, guild_id |-> g, xp |-> 0, level |-> 1]

\* get_user_data: the row read, or the zeroed row inserted; ok = FALSE when the
\* INSERT raises sqlite3.IntegrityError (nothing is written then).
get_user_data(rows, u, g) ==
    IF SelectUser(rows, u, g) # {}
    THEN LET r == CHOOSE r \in SelectUser(rows, u, g) : TRUE
         IN  [ok |-> TRUE, rows |-> rows, xp |-> r.xp, level |-> r.level]
    ELSE IF InsertRefused(rows, u, g)
    THEN [ok |-> FALSE, rows |-> rows, xp |-> 0, level |-> 1]
    ELSE [ok |-> TRUE, rows |-> rows \cup {NewUserRow(u, g)}, xp |-> 0, level |-> 1]

\* new_xp = max(0, current_data['xp'] + xp_change)
ClampedSum_unclamped(xp, xp_change) == xp + xp_change

ClampedSum(xp, xp_change) == Max(0, xp + xp_change)

UpdateUser_xp_only(rows, u, g, new_xp, new_level) ==
    {IF r.user_id = u /\ r.guild_id = g THEN [r EXCEPT !.xp = new_xp] ELSE r
     : r \in rows}

\* UPDATE users SET xp = ?, level = ? WHERE user_id = ? AND guild_id = ?
UpdateUser(rows, u, g, new_xp, new_level) ==
    {IF r.user_id = u /\ r.guild_id = g
     THEN [r EXCEPT !.xp = new_xp, !.level = new_level]
     ELSE r : r \in rows}

NewTask(u, g, old_level, new_level) ==
    [user_id |-> u, guild_id |-> g, old_level |-> old_level,
     new_level |-> new_level, pc |-> "start"]

SpawnOnChange_up_only(u, g, old_level, new_level) ==
    IF old_level < new_level THEN <<NewTask(u, g, old_level, new_level)>> ELSE <<>>

\* if old_level != new_level: asyncio.create_task(update_user_level_role(...))
SpawnOnChange(u, g, old_level, new_level) ==
    IF old_level # new_level THEN <<NewTask(u, g, old_level, new_level)>> ELSE <<>>

\* update_user_xp, as a function of the table: the table after it, what it
\* returns and the tasks it creates; ok = FALSE when get_user_data raised.
update_user_xp(rows, u, g, xp_change) ==
    LET current_data == get_user_data(rows, u, g)
        old_level == current_data.level
        new_xp == ClampedSum(current_data.xp, xp_change)
        new_level == calculate_level(new_xp)
    IN  IF ~current_data.ok
        THEN [ok |-> FALSE, rows |-> rows, new_xp |-> 0, new_level |-> 1,
              spawn |-> <<>>]
        ELSE [ok |-> TRUE,
              rows |-> UpdateUser(current_data.rows, u, g, new_xp, new_level),
              new_xp |-> new_xp, new_level |-> new_level,
              spawn |-> SpawnOnChange(u, g, old_level, new_level)]

\* ------------------------------------------------------- initial state
NoAdjust == [user_id |-> 0, guild_id |-> 0, ok |-> FALSE, new_xp |-> 0, new_level |-> 1]

\* Tier roles that exist when the bot has started: on_ready has created the
\* ten of guild 1 and could not create those of guild 2 (no permission then).
StartRoles == [g \in Guilds |-> IF g = 1 THEN Levels ELSE {}]

\* No slash_assign_level_roles run has completed; no total was computed.
NoRun == [n |-> 0, lost |-> 0, clean |-> FALSE, quiet |-> FALSE, calls |-> 0,
          present |-> {}, guildRoles |-> {}, roles |-> <<>>, before |-> <<>>]
NoTotal == [user_id |-> 0, guild_id |-> 0, level_names |-> {}, roles |-> {},
            base |-> 0, ok |-> FALSE, resolved |-> FALSE,
            level_role_xp |-> 0, custom_role_xp |-> 0,
            auto_role_xp |-> 0, total |-> 0]

\* No handler has answered; get_leaderboard has not been called.
NoAnswer == [handler |-> "", guild_id |-> 0, arg |-> 0, user_id |-> 0,
             text |-> "", xp |-> 0, level |-> 0]
NoBoard == [guild_id |-> 0, limit |-> 0, leaderboard_data |-> <<>>]

\* The bot started: the tables hold rows (users) and nothing else, the members
\* hold the tier roles held, role_xp_assignments is as given, and get_member
\* resolves the pairs here.
StartedAmong(rows, held, assignments, here) ==
    /\ users = rows
    /\ quests = {}
    /\ settings = {}
    /\ quest_ping_role_id = 0
    /\ quest_channel_id = 0
    /\ role_xp_assignments = assignments
    /\ guildRoles = StartRoles
    /\ memberRoles = held
    /\ present = here
    /\ posted = [msg \in Messages |-> 0]
    /\ announcing = {}
    /\ tasks = <<>>
    /\ updates = {}
    /\ events = 0
    /\ calls = 0
    /\ applied = [p \in Pairs |-> <<>>]
    /\ lastAdjust = NoAdjust
    /\ signals = [k \in Messages \X Members |-> <<>>]
    /\ ended = {}
    /\ failed = {}
    /\ overlapped = {}
    /\ initRoles = held
    /\ assigning = {}
    /\ finished = [g \in Guilds |-> NoRun]
    /\ creating = <<>>
    /\ extraRoles = [g \in Guilds |-> {}]
    /\ shown = NoTotal
    /\ sent = NoAnswer
    /\ board = NoBoard
    /\ showing = {}
    /\ durable = rows
    /\ saved = {}
    /\ kept = {}

\* The same, every member being resolved.
Started(rows, held, assignments) == StartedAmong(rows, held, assignments, Pairs)

\* QuestBot.__init__ and init_database on a fresh database, the members
\* holding the tier roles held.
InitialState(held) == Started({}, held, <<>>)

Init == InitialState([p \in Pairs |-> {}])

\* Tier roles member 1 may hold in guild 1 at the start (granted by hand).
InitialHoldings ==
    {[p \in Pairs |-> IF p = <<1, 1>> THEN r ELSE {}] : r \in {{}, {1}, {2}}}

InitHolding == \E held \in InitialHoldings : InitialState(held)

\* --------------------------------------------------- a call of update_user_xp
Running(t) == t.pc \in {"start", "removing", "creating", "adding"}

InFlight(u, g) ==
    \E i \in 1..Len(tasks) :
        tasks[i].user_id = u /\ tasks[i].guild_id = g /\ Running(tasks[i])

\* What a handler's call update_user_xp(u, g, xp_change) with outcome res does
\* to the ledger and the task list, and what is recorded about it.
Adjusted(u, g, xp_change, res) ==
    /\ users' = res.rows
    /\ durable' = IF res.ok THEN res.rows ELSE durable
    /\ saved' = IF res.ok THEN settings ELSE saved
    /\ tasks' = tasks \o res.spawn
    /\ calls' = calls + 1
    /\ applied' = IF res.ok
                  THEN [applied EXCEPT ![<<u, g>>] = Append(@, xp_change)]
                  ELSE applied
    /\ lastAdjust' = [user_id |-> u, guild_id |-> g, ok |-> res.ok,
                      new_xp |-> res.new_xp, new_level |-> res.new_level]
    /\ overlapped' = IF res.spawn # <<>> /\ InFlight(u, g)
                     THEN overlapped \cup {<<u, g>>}
                     ELSE overlapped

\* What a handler sends to the one who called on it (text "": it ends without
\* sending anything); arg is the id the call was about.
Answer(handler, g, arg, user, text) ==
    [handler |-> handler, guild_id |-> g, arg |-> arg, user_id |-> user,
     text |-> text, xp |-> 0, level |-> 0]

\* on_command_error, for an exception that is no MissingPermissions,
\* MissingRole or BadArgument.
ErrorText == "An error occurred while processing the command!"

\* ------------------------------------------------------- staff commands
\* add_xp / slash_add_xp: the member argument is a member of the guild.
add_xp(member, g, amount) ==
    /\ events < MaxEvents
    /\ events' = events + 1
    /\ <<member, g>> \in present
    /\ \E res \in {update_user_xp(users, member, g, amount)} :
           /\ Adjusted(member, g, amount, res)
           /\ kept' = IF res.ok THEN quests ELSE kept
           /\ sent' = IF res.ok
                      THEN [Answer("add_xp", g, member, 0, "XP Added")
                               EXCEPT !.xp = res.new_xp, !.level = res.new_level]
                      ELSE Answer("add_xp", g, member, 0, ErrorText)
    /\ UNCHANGED <<quests, settings, quest_ping_role_id, quest_channel_id,
                   role_xp_assignments, guildRoles, memberRoles, present, posted,
                   announcing, updates, signals, ended, failed,
                   initRoles,
                   assigning, finished, creating, extraRoles, shown,
                   board, showing>>

\* remove_xp / slash_remove_xp
remove_xp(member, g, amount) ==
    /\ events < MaxEvents
    /\ events' = events + 1
    /\ <<member, g>> \in present
    /\ \E res \in {update_user_xp(users, member, g, -amount)} :
           /\ Adjusted(member, g, -amount, res)
           /\ kept' = IF res.ok THEN quests ELSE kept
           /\ sent' = IF res.ok
                      THEN [Answer("remove_xp", g, member, 0, "XP Removed")
                               EXCEPT !.xp = res.new_xp, !.level = res.new_level]
                      ELSE Answer("remove_xp", g, member, 0, ErrorText)
    /\ UNCHANGED <<quests, settings, quest_ping_role_id, quest_channel_id,
                   role_xp_assignments, guildRoles, memberRoles, present, posted,
                   announcing, updates, signals, ended, failed,
                   initRoles,
                   assigning, finished, creating, extraRoles, shown,
                   board, showing>>

\* ------------------------------------------------------------- settings
\* INSERT OR REPLACE INTO settings: the whole row of the guild is replaced.
SaveRow(rows, g, ping, channel, assignments) ==
    {r \in rows : r.guild_id # g}
        \cup {[guild_id |-> g, quest_ping_role_id |-> ping,
               quest_channel_id |-> channel,
               role_xp_assignments |->
                   IF g \in DOMAIN assignments THEN assignments[g] ELSE <<>>]}

save_settings(g, assignments) ==
    SaveRow(settings, g, quest_ping_role_id, quest_channel_id, assignments)

\* The dict d with d[k] = v set.
DictSet(d, k, v) == [x \in DOMAIN d \cup {k} |-> IF x = k THEN v ELSE d[x]]

\* assign_role_xp / slash_assign_role_xp
assign_role_xp(g, role, xp_amount) ==
    /\ events < MaxEvents
    /\ events' = events + 1
    /\ LET with_guild == IF g \in DOMAIN role_xp_assignments
                         THEN role_xp_assignments
                         ELSE DictSet(role_xp_assignments, g, <<>>)
           assignments == DictSet(with_guild, g,
                                  DictSet(with_guild[g], role, xp_amount))
       IN  /\ role_xp_assignments' = assignments
           /\ settings' = save_settings(g, assignments)
    /\ durable' = users
    /\ saved' = settings'
    /\ kept' = quests
    /\ UNCHANGED <<users, quests, quest_ping_role_id, quest_channel_id,
                   guildRoles, memberRoles, present, posted, announcing, tasks,
                   updates, calls, applied, lastAdjust, signals,
                   ended, failed, overlapped, initRoles,
                   assigning, finished, creating, extraRoles, shown,
                   sent, board, showing>>

\* The guild a role id belongs to, the channels that exist and the guild of
\* each: role 11 is of guild 1, role 21 of guild 2; channel c is of guild c.
RoleGuild(role_id) == role_id \div 10
Channels == Guilds
ChannelGuild(channel_id) == channel_id

GetRole_any(g, role_id) == TRUE

\* ctx.guild.get_role(role_id): the role, when it is one of the guild.
GetRole(g, role_id) == RoleGuild(role_id) = g

\* bot.get_channel(channel_id): the channel, of whichever guild the bot is in.
GetChannel(channel_id) == channel_id \in Channels

\* set_quest_ping: role = ctx.guild.get_role(role_id); if role: the attribute
\* of quest_bot is set and the row of the guild saved; else nothing changes.
set_quest_ping(g, role_id) ==
    /\ events < MaxEvents
    /\ events' = events + 1
    /\ IF GetRole(g, role_id)
       THEN /\ quest_ping_role_id' = role_id
            /\ settings' = SaveRow(settings, g, role_id, quest_channel_id,
                                   role_xp_assignments)
            /\ durable' = users
            /\ saved' = settings'
            /\ kept' = quests
            /\ sent' = Answer("set_quest_ping", g, role_id, 0,
                              "Quest ping role set")
       ELSE /\ sent' = Answer("set_quest_ping", g, role_id, 0, "Role not found!")
            /\ UNCHANGED <<quest_ping_role_id, settings, durable, saved, kept>>
    /\ UNCHANGED <<users, quests, quest_channel_id, role_xp_assignments,
                   guildRoles, memberRoles, present, posted, announcing, tasks,
                   updates, calls, applied, lastAdjust, signals, ended, failed,
                   overlapped, initRoles, assigning, finished, creating,
                   extraRoles, shown, board, showing>>

\* set_quest_channel: channel = bot.get_channel(channel_id), a channel of any
\* guild the bot is in; if channel: the attribute is set and the row saved.
set_quest_channel(g, channel_id) ==
    /\ events < MaxEvents
    /\ events' = events + 1
    /\ IF GetChannel(channel_id)
       THEN /\ quest_channel_id' = channel_id
            /\ settings' = SaveRow(settings, g, quest_ping_role_id, channel_id,
                                   role_xp_assignments)
            /\ durable' = users
            /\ saved' = settings'
            /\ kept' = quests
            /\ sent' = Answer("set_quest_channel", g, channel_id, 0,
                              "Quest channel set")
       ELSE /\ sent' = Answer("set_quest_channel", g, channel_id, 0,
                              "Channel not found!")
            /\ UNCHANGED <<quest_channel_id, settings, durable, saved, kept>>
    /\ UNCHANGED <<users, quests, quest_ping_role_id, role_xp_assignments,
                   guildRoles, memberRoles, present, posted, announcing, tasks,
                   updates, calls, applied, lastAdjust, signals, ended, failed,
                   overlapped, initRoles, assigning, finished, creating,
                   extraRoles, shown, board, showing>>

\* load_settings(guild_id) on the attributes mem of quest_bot: when the guild
\* has a row, the two ids are set from it and the guild's entry of
\* role_xp_assignments is replaced; when it has none, nothing is set.
load_settings(mem, rows, g) ==
    IF \E r \in rows : r.guild_id = g
    THEN LET result == CHOOSE r \in rows : r.guild_id = g
         IN  [quest_ping_role_id |-> result.quest_ping_role_id,
              quest_channel_id |-> result.quest_channel_id,
              role_xp_assignments |->
                  DictSet(mem.role_xp_assignments, g, result.role_xp_assignments)]
    ELSE mem

\* --------------------------------------------------------------- quests
\* add_quest / slash_add_quest up to the first await that returns: the
\* announcement is sent to the quest channel when one is set and exists, to the
\* channel of the command, in guild g, when not, and gets the message id msg.
add_quest_send(g, msg) ==
    /\ events < MaxEvents
    /\ events' = events + 1
    /\ posted[msg] = 0
    /\ posted' = [posted EXCEPT ![msg] =
                      IF quest_channel_id \in Channels
                      THEN ChannelGuild(quest_channel_id) ELSE g]
    /\ announcing' = announcing \cup {[message_id |-> msg, guild_id |-> g]}
    /\ UNCHANGED <<users, quests, settings, quest_ping_role_id, quest_channel_id,
                   role_xp_assignments, guildRoles, memberRoles, present, tasks,
                   updates, calls, applied, lastAdjust,
                   signals, ended, failed, overlapped, initRoles,
                   assigning, finished, creating, extraRoles, shown,
                   sent, board, showing, durable, saved, kept>>

\* INSERT INTO quests (message_id, guild_id, channel_id, title, content)
InsertQuest(rows, msg, g) ==
    rows \cup {[message_id |-> msg, guild_id |-> g, completed_users |-> <<>>]}

\* add_quest after add_reaction, the role ping and its sleep: the INSERT.
add_quest_save(a) ==
    /\ a \in announcing
    /\ announcing' = announcing \ {a}
    /\ quests' = InsertQuest(quests, a.message_id, a.guild_id)
    /\ durable' = users
    /\ saved' = settings
    /\ kept' = quests'
    /\ UNCHANGED <<events, users, settings, quest_ping_role_id, quest_channel_id,
                   role_xp_assignments, guildRoles, memberRoles, present, posted,
                   tasks, updates, calls, applied, lastAdjust,
                   signals, ended, failed, overlapped, initRoles,
                   assigning, finished, creating, extraRoles, shown,
                   sent, board, showing>>

\* DELETE FROM quests WHERE message_id = ?
DeleteQuest(rows, message_id) == {q \in rows : q.message_id # message_id}

\* remove_quest / slash_remove_quest with a message id that parses: the DELETE
\* (of the row, or of none), the commit, the attempt to delete the message,
\* and the answer.
remove_quest(message_id) ==
    /\ events < MaxEvents
    /\ events' = events + 1
    /\ quests' = DeleteQuest(quests, message_id)
    /\ durable' = users
    /\ saved' = settings
    /\ kept' = quests'
    /\ sent' = Answer("remove_quest", 0, message_id, 0,
                      "Quest removed successfully!")
    /\ UNCHANGED <<users, settings, quest_ping_role_id, quest_channel_id,
                   role_xp_assignments, guildRoles, memberRoles, present, posted,
                   announcing, tasks, updates, calls, applied,
                   lastAdjust, signals, ended, failed, overlapped, initRoles,
                   assigning, finished, creating, extraRoles, shown,
                   board, showing>>

NotCompleted_always(completed_users, user) == TRUE

\* user.id not in completed_users
NotCompleted(completed_users, user) ==
    \A i \in 1..Len(completed_users) : completed_users[i] # user

\* UPDATE quests SET completed_users = ? WHERE message_id = ?
MarkCompleted(rows, msg, completed_users) ==
    {IF q.message_id = msg THEN [q EXCEPT !.completed_users = completed_users]
     ELSE q : q \in rows}

\* The guild of a message: of an announcement, the guild it was posted in (0:
\* not posted yet); the messages of ChatMessages are no announcements.
MessageGuild(msg) == IF msg \in Messages THEN posted[msg] ELSE ChatGuild

SelectQuest_or_blank(rows, msg) ==
    IF \E q \in rows : q.message_id = msg
    THEN {q \in rows : q.message_id = msg}
    ELSE {[message_id |-> msg, guild_id |-> 0, completed_users |-> <<>>]}

\* SELECT title, completed_users FROM quests WHERE message_id = ?
SelectQuest(rows, msg) == {q \in rows : q.message_id = msg}

\* on_reaction_add with the check-mark emoji by a non-bot user on the message
\* msg; the whole handler up to its only await (the confirmation it sends).
on_reaction_add(msg, user) ==
    /\ events < MaxEvents
    /\ events' = events + 1
    /\ MessageGuild(msg) # 0
    /\ <<user, MessageGuild(msg)>> \in present
    /\ LET quest_data == SelectQuest(quests, msg)
           g == MessageGuild(msg)
       IN  IF quest_data = {}
           THEN /\ sent' = Answer("on_reaction_add", g, msg, user, "")
                /\ UNCHANGED <<users, quests, tasks, calls, applied, lastAdjust,
                               signals, overlapped, durable, saved, kept>>
           ELSE LET q == CHOOSE q \in quest_data : TRUE
                    res == update_user_xp(users, user, g, QuestReward)
                IN  IF ~NotCompleted(q.completed_users, user)
                    THEN /\ signals' = [signals EXCEPT ![<<msg, user>>] =
                                            Append(@, "AlreadyCompleted")]
                         /\ sent' = Answer("on_reaction_add", g, msg, user, "")
                         /\ UNCHANGED <<users, quests, tasks, calls, applied,
                                        lastAdjust, overlapped, durable, saved, kept>>
                    ELSE /\ Adjusted(user, g, QuestReward, res)
                         /\ quests' = IF res.ok
                                      THEN MarkCompleted(quests, msg,
                                               Append(q.completed_users, user))
                                      ELSE quests
                         /\ kept' = IF res.ok THEN quests' ELSE kept
                         /\ signals' = [signals EXCEPT ![<<msg, user>>] =
                                Append(@, IF res.ok THEN "Awarded" ELSE "Error")]
                         /\ sent' = Answer("on_reaction_add", g, msg, user,
                                IF res.ok THEN "Quest Completed!" ELSE "")
    /\ UNCHANGED <<settings, quest_ping_role_id, quest_channel_id,
                   role_xp_assignments, guildRoles, memberRoles, present, posted,
                   announcing, updates, ended, failed, initRoles,
                   assigning, finished, creating, extraRoles, shown,
                   board, showing>>

\* ------------------------------------------------------ role-grant awards
\* The award computed from the new_xp the handler got from its previous award
\* (a copy held across the await) instead of from the stored row.
member_update_award_stale(rows, h, xp_reward) ==
    LET res == update_user_xp(rows, h.user_id, h.guild_id, xp_reward)
        stale == ClampedSum(h.new_xp, xp_reward)
    IN  IF h.pending = h.new_roles \/ ~res.ok THEN res
        ELSE [res EXCEPT !.rows = UpdateUser(rows, h.user_id, h.guild_id, stale,
                                             calculate_level(stale)),
                         !.new_xp = stale, !.new_level = calculate_level(stale)]

\* The call update_user_xp(after.id, guild_id, xp_reward) of handler h.
member_update_award(rows, h, xp_reward) ==
    update_user_xp(rows, h.user_id, h.guild_id, xp_reward)

Assigned(g, pending) ==
    IF g \in DOMAIN role_xp_assignments
    THEN {r \in pending : r \in DOMAIN role_xp_assignments[g]}
    ELSE {}

\* One turn of the loop over new_roles of handler h for the role r, up to the
\* await of the notification: the award, then the handler waits (h \in
\* updates) or, after an exception, is gone.
AwardRole(h, r) ==
    LET xp_reward == role_xp_assignments[h.guild_id][r]
        res == member_update_award(users, h, xp_reward)
    IN  /\ Adjusted(h.user_id, h.guild_id, xp_reward, res)
        /\ kept' = IF res.ok THEN quests ELSE kept
        /\ updates' = (updates \ {h}) \cup
               (IF res.ok
                THEN {[h EXCEPT !.pending = @ \ {r}, !.new_xp = res.new_xp,
                                !.new_level = res.new_level]}
                ELSE {})

\* on_member_update(before, after) for a member of guild g who gained the
\* roles added: the handler up to its first await.
on_member_update(member, g, added) ==
    /\ events < MaxEvents
    /\ events' = events + 1
    /\ <<member, g>> \in present
    /\ added # {}
    /\ \A h \in updates : ~(h.user_id = member /\ h.guild_id = g)
    /\ \E r \in Assigned(g, added) :
           AwardRole([user_id |-> member, guild_id |-> g, new_roles |-> added,
                      pending |-> added, new_xp |-> 0, new_level |-> 1], r)
    /\ UNCHANGED <<quests, settings, quest_ping_role_id, quest_channel_id,
                   role_xp_assignments, guildRoles, memberRoles, present, posted,
                   announcing, signals, ended, failed, initRoles,
                   assigning, finished, creating, extraRoles, shown,
                   sent, board, showing>>

\* on_member_update resumed after the await: the next role of the loop, or
\* the end of the handler when no role with an assignment is left.
on_member_update_resume(h) ==
    /\ h \in updates
    /\ IF Assigned(h.guild_id, h.pending) = {}
       THEN /\ updates' = updates \ {h}
            /\ UNCHANGED <<users, tasks, calls, applied, lastAdjust, overlapped,
                            durable, saved, kept>>
       ELSE \E r \in Assigned(h.guild_id, h.pending) : AwardRole(h, r)
    /\ UNCHANGED <<events, quests, settings, quest_ping_role_id, quest_channel_id,
                   role_xp_assignments, guildRoles, memberRoles, present, posted,
                   announcing, signals, ended, failed, initRoles,
                   assigning, finished, creating, extraRoles, shown,
                   sent, board, showing>>

\* new_roles = set(after.roles) - set(before.roles)
NewRoles(before, after) == after \ before

\* on_member_update(before, after) for a member of guild g whose roles were
\* before and are after: the handler up to its first await, or to its end
\* when the guild has no assignments or no new role has one.
on_member_update_event(member, g, before, after) ==
    IF Assigned(g, NewRoles(before, after)) = {}
    THEN /\ events < MaxEvents
         /\ events' = events + 1
         /\ <<member, g>> \in present
         /\ UNCHANGED <<users, quests, settings, quest_ping_role_id,
                        quest_channel_id, role_xp_assignments, guildRoles,
                        memberRoles, present, posted, announcing, tasks, updates,
                        calls, applied, lastAdjust, signals, ended, failed,
                        overlapped, initRoles, assigning, finished, creating,
                        extraRoles, shown, sent, board, showing, durable, saved,
                        kept>>
    ELSE on_member_update(member, g, NewRoles(before, after))

\* await channel.send(embed=embed, delete_after=15) raises: the exception
\* leaves the loop over new_roles and the handler.
on_member_update_fails(h) ==
    /\ h \in updates
    /\ updates' = updates \ {h}
    /\ UNCHANGED <<events, users, quests, settings, quest_ping_role_id,
                   quest_channel_id, role_xp_assignments, guildRoles,
                   memberRoles, present, posted, announcing, tasks,
                   calls, applied, lastAdjust, signals, ended, failed,
                   overlapped, initRoles, assigning, finished, creating,
                   extraRoles, shown, sent, board, showing, durable, saved,
                   kept>>

\* --------------------------------------------------- role reconciliation
\* create_level_roles(guild) when no other call of it runs beside it: "Level
\* 1" .. "Level 10" are created in order, those that exist skipped; the first
\* create_role that fails (at level stop; 11 = none fails) ends the loop, and
\* the exception is caught inside.  (The calls made by the command and by
\* on_ready are followed await by await below.)
create_level_roles(roles, stop) == roles \cup {l \in Levels : l < stop}

GrantOrCreate_no_create(roles, t) ==
    IF t.new_level \in roles THEN "adding" ELSE "skipped"

\* new_role = discord.utils.get(guild.roles, name=new_role_name); if new_role:
\* await member.add_roles(...) else: await self.create_level_roles(guild)
GrantOrCreate(roles, t) ==
    IF t.new_level \in roles THEN "adding" ELSE "creating"

OnPlatformError_rollback(rows, t) ==
    UpdateUser(rows, t.user_id, t.guild_id, LEVEL_THRESHOLDS[t.old_level],
               t.old_level)

\* except discord.Forbidden / except Exception of update_user_level_role: the
\* failure is printed and the task ends; the ledger is as it was.
OnPlatformError(rows, t) == rows

\* The task list with task i replaced by t, and with task i gone (ended).
SetTask(i, t) == [tasks EXCEPT ![i] = t]
EndTask(i) == SubSeq(tasks, 1, i - 1) \o SubSeq(tasks, i + 1, Len(tasks))

\* update_user_level_role from its start to its first await, or to its end
\* when the member is not resolved.  Tasks made by create_task start in the
\* order they were created.
ReconcileStart(i) ==
    /\ i \in 1..Len(tasks)
    /\ tasks[i].pc = "start"
    /\ \A j \in 1..(i - 1) : tasks[j].pc # "start"
    /\ LET t == tasks[i]
           p == <<t.user_id, t.guild_id>>
       IN  IF p \notin present
           THEN /\ tasks' = EndTask(i)
                /\ ended' = ended \cup {"aborted"}
           ELSE /\ tasks' = SetTask(i,
                       IF t.old_level \in guildRoles[t.guild_id]
                          /\ t.old_level \in memberRoles[p]
                       THEN [t EXCEPT !.pc = "removing"]
                       ELSE [t EXCEPT !.pc = GrantOrCreate(guildRoles[t.guild_id], t)])
                /\ ended' = ended
    /\ UNCHANGED <<events, users, quests, settings, quest_ping_role_id, quest_channel_id,
                   role_xp_assignments, guildRoles, memberRoles, present, posted,
                   announcing, updates, calls, applied,
                   lastAdjust, signals, failed, overlapped, initRoles,
                   assigning, finished, creating, extraRoles, shown,
                   sent, board, showing, durable, saved, kept>>

\* await member.remove_roles(old_role) returns: the role is removed and the
\* task goes on to the new role up to its next await.
ReconcileRemoved(i) ==
    /\ i \in 1..Len(tasks)
    /\ tasks[i].pc = "removing"
    /\ LET t == tasks[i]
           p == <<t.user_id, t.guild_id>>
       IN  /\ p \in present
           /\ memberRoles' = [memberRoles EXCEPT ![p] = @ \ {t.old_level}]
           /\ tasks' = SetTask(i,
                  [t EXCEPT !.pc = GrantOrCreate(guildRoles[t.guild_id], t)])
    /\ UNCHANGED <<events, users, quests, settings, quest_ping_role_id, quest_channel_id,
                   role_xp_assignments, guildRoles, present, posted, announcing,
                   updates, calls, applied, lastAdjust,
                   signals, ended, failed, overlapped, initRoles,
                   assigning, finished, creating, extraRoles, shown,
                   sent, board, showing, durable, saved, kept>>

\* await member.remove_roles(old_role) raises: the except clause ends the task.
ReconcileRemoveFails(i) ==
    /\ i \in 1..Len(tasks)
    /\ tasks[i].pc = "removing"
    /\ tasks' = EndTask(i)
    /\ users' = OnPlatformError(users, tasks[i])
    /\ ended' = ended \cup {"remove failed"}
    /\ failed' = failed \cup {<<tasks[i].user_id, tasks[i].guild_id>>}
    /\ UNCHANGED <<events, quests, settings, quest_ping_role_id, quest_channel_id,
                   role_xp_assignments, guildRoles, memberRoles, present, posted,
                   announcing, updates, calls, applied,
                   lastAdjust, signals, overlapped, initRoles,
                   assigning, finished, creating, extraRoles, shown,
                   sent, board, showing, durable, saved, kept>>

\* await self.create_level_roles(guild) returns (it catches its own failures);
\* the new role is looked up again and, when found, granted; when not, the
\* task ends without a grant.
ReconcileCreated(i, stop) ==
    /\ i \in 1..Len(tasks)
    /\ tasks[i].pc = "creating"
    /\ LET t == tasks[i]
           roles == create_level_roles(guildRoles[t.guild_id], stop)
       IN  /\ guildRoles' = [guildRoles EXCEPT ![t.guild_id] = roles]
           /\ IF t.new_level \in roles
              THEN /\ tasks' = SetTask(i, [t EXCEPT !.pc = "adding"])
                   /\ ended' = ended
              ELSE /\ tasks' = EndTask(i)
                   /\ ended' = ended \cup {"no grant"}
           /\ failed' = IF stop \in Levels
                        THEN failed \cup {<<t.user_id, t.guild_id>>}
                        ELSE failed
    /\ UNCHANGED <<events, users, quests, settings, quest_ping_role_id, quest_channel_id,
                   role_xp_assignments, memberRoles, present, posted, announcing,
                   updates, calls, applied, lastAdjust,
                   signals, overlapped, initRoles,
                   assigning, finished, creating, extraRoles, shown,
                   sent, board, showing, durable, saved, kept>>

\* await member.add_roles(new_role) returns: the role is held, the task ends.
ReconcileAdded(i) ==
    /\ i \in 1..Len(tasks)
    /\ tasks[i].pc = "adding"
    /\ LET t == tasks[i]
           p == <<t.user_id, t.guild_id>>
       IN  /\ p \in present
           /\ memberRoles' = [memberRoles EXCEPT ![p] = @ \cup {t.new_level}]
           /\ tasks' = EndTask(i)
           /\ ended' = ended \cup {"granted"}
    /\ UNCHANGED <<events, users, quests, settings, quest_ping_role_id, quest_channel_id,
                   role_xp_assignments, guildRoles, present, posted, announcing,
                   updates, calls, applied, lastAdjust,
                   signals, failed, overlapped, initRoles,
                   assigning, finished, creating, extraRoles, shown,
                   sent, board, showing, durable, saved, kept>>

\* await member.add_roles(new_role) raises: the except clause ends the task.
ReconcileAddFails(i) ==
    /\ i \in 1..Len(tasks)
    /\ tasks[i].pc = "adding"
    /\ tasks' = EndTask(i)
    /\ users' = OnPlatformError(users, tasks[i])
    /\ ended' = ended \cup {"add failed"}
    /\ failed' = failed \cup {<<tasks[i].user_id, tasks[i].guild_id>>}
    /\ UNCHANGED <<events, quests, settings, quest_ping_role_id, quest_channel_id,
                   role_xp_assignments, guildRoles, memberRoles, present, posted,
                   announcing, updates, calls, applied,
                   lastAdjust, signals, overlapped, initRoles,
                   assigning, finished, creating, extraRoles, shown,
                   sent, board, showing, durable, saved, kept>>

\* The member leaves the guild: get_member no longer resolves them and their
\* roles there are gone.
MemberLeaves(member, g) ==
    /\ events < MaxEvents
    /\ events' = events + 1
    /\ <<member, g>> \in present
    /\ present' = present \ {<<member, g>>}
    /\ memberRoles' = [memberRoles EXCEPT ![<<member, g>>] = {}]
    /\ UNCHANGED <<users, quests, settings, quest_ping_role_id, quest_channel_id,
                   role_xp_assignments, guildRoles, posted, announcing, tasks,
                   updates, calls, applied, lastAdjust,
                   signals, ended, failed, overlapped, initRoles,
                   assigning, finished, creating, extraRoles, shown,
                   sent, board, showing, durable, saved, kept>>

\* ------------------------------------------------------------ total XP
\* The names of the roles that are not tier roles: roles 1 and 2 (the roles
\* XP is assigned to) have plain names, role 3 is "Badge Collector", role 4
\* "Daily Streak", role 5 "Streak Badge".  role.name.lower() contains "badge",
\* contains "streak":
NameHasBadge(role) == role \in {3, 5}
NameHasStreak(role) == role \in {4, 5}

RECURSIVE SumOver(_, _)
SumOver(f, keys) ==
    IF keys = {} THEN 0
    ELSE LET k == CHOOSE k \in keys : TRUE
         IN  f[k] + SumOver(f, keys \ {k})

\* The name of a role that starts with "Level " is kept as the text after
\* that prefix, a sequence of characters; no name has the prefix twice, so
\* role.name.split("Level ")[1] is that text.
DigitChars == <<"0", "1", "2", "3", "4", "5", "6", "7", "8", "9">>

IsDigit(c) == \E i \in 1..10 : DigitChars[i] = c
DigitValue(c) == (CHOOSE i \in 1..10 : DigitChars[i] = c) - 1

\* str(n) for n >= 0, as in f"Level {level}".
RECURSIVE LevelName(_)
LevelName(n) ==
    IF n < 10 THEN <<DigitChars[n + 1]>>
    ELSE Append(LevelName(n \div 10), DigitChars[(n % 10) + 1])

\* The names of the tier roles held.
HeldNames(held) == {LevelName(n) : n \in held}

RECURSIVE Strip(_)
Strip(text) ==
    IF text = <<>> THEN text
    ELSE IF Head(text) = " " THEN Strip(Tail(text))
    ELSE IF text[Len(text)] = " " THEN Strip(SubSeq(text, 1, Len(text) - 1))
    ELSE text

RECURSIVE DecimalValue(_, _)
DecimalValue(digits, value) ==
    IF digits = <<>> THEN value
    ELSE DecimalValue(Tail(digits), 10 * value + DigitValue(Head(digits)))

\* int(text): blanks around it dropped, a sign, then decimal digits; ok = FALSE
\* when it raises ValueError.
ParseInt(text) ==
    LET stripped == Strip(text)
        signed == stripped # <<>> /\ Head(stripped) \in {"+", "-"}
        digits == IF signed THEN Tail(stripped) ELSE stripped
    IN  IF digits = <<>> \/ \E i \in 1..Len(digits) : ~IsDigit(digits[i])
        THEN [ok |-> FALSE, value |-> 0]
        ELSE [ok |-> TRUE,
              value |-> IF signed /\ Head(stripped) = "-"
                        THEN 0 - DecimalValue(digits, 0)
                        ELSE DecimalValue(digits, 0)]

\* LEVEL_THRESHOLDS.get(level_num, 0)
ThresholdOr0(level_num) ==
    IF level_num \in DOMAIN LEVEL_THRESHOLDS THEN LEVEL_THRESHOLDS[level_num] ELSE 0

RaiseTo_sum(level_role_xp, level_num) == level_role_xp + ThresholdOr0(level_num)

\* level_role_xp = max(level_role_xp, LEVEL_THRESHOLDS.get(level_num, 0))
RaiseTo(level_role_xp, level_num) == Max(level_role_xp, ThresholdOr0(level_num))

\* for role in member.roles: if role.name.startswith("Level "): try: level_num
\* = int(...); if 1 <= level_num <= 10: level_role_xp = max(...); except:
\* continue -- over the names (the texts after "Level ") of such roles.
RECURSIVE LevelRoleLoop(_, _)
LevelRoleLoop(level_names, level_role_xp) ==
    IF level_names = {} THEN level_role_xp
    ELSE LET name == CHOOSE name \in level_names : TRUE
             level_num == ParseInt(name)
         IN  LevelRoleLoop(level_names \ {name},
                 IF level_num.ok /\ 1 <= level_num.value /\ level_num.value <= 10
                 THEN RaiseTo(level_role_xp, level_num.value)
                 ELSE level_role_xp)

\* level_role_xp of a member who holds the roles named "Level " + name for
\* the name in level_names.
LevelRoleXp(level_names) == LevelRoleLoop(level_names, 0)

\* custom_role_xp: role_assignments[str(role.id)] summed over the held roles
\* that are keys of the guild's assignments.
CustomRoleXp(assignments, g, roles) ==
    IF g \in DOMAIN assignments
    THEN SumOver(assignments[g], {r \in roles : r \in DOMAIN assignments[g]})
    ELSE 0

\* auto_role_xp: for each held role, 5 if "badge" in role_name_lower, elif
\* "streak" in role_name_lower 5.
AutoRoleXp(roles) ==
    SumOver([r \in roles |-> IF NameHasBadge(r) THEN 5
                            ELSE IF NameHasStreak(r) THEN 5 ELSE 0], roles)

TotalOf_roles_only(base_xp, level_role_xp, custom_role_xp, auto_role_xp) ==
    level_role_xp + custom_role_xp + auto_role_xp

\* total_xp = max(base_xp, level_role_xp + custom_role_xp + auto_role_xp)
TotalOf(base_xp, level_role_xp, custom_role_xp, auto_role_xp) ==
    Max(base_xp, level_role_xp + custom_role_xp + auto_role_xp)

\* calculate_total_user_xp(user_id, guild_id) for a member who holds the roles
\* named "Level " + name for name in level_names and the other roles roles, resolved
\* telling whether guild.get_member finds them: the table after the call and
\* what it returns.  When get_user_data raises, the except clause calls it
\* again, it raises again, and the call returns nothing (ok = FALSE).
calculate_total_user_xp(rows, u, g, resolved, level_names, roles, assignments) ==
    LET user_data == get_user_data(rows, u, g)
        base_xp == user_data.xp
        level_role_xp == LevelRoleXp(level_names)
        custom_role_xp == CustomRoleXp(assignments, g, roles)
        auto_role_xp == AutoRoleXp(roles)
        parts == [user_id |-> u, guild_id |-> g, level_names |-> level_names,
                  roles |-> roles, base |-> base_xp, ok |-> user_data.ok,
                  resolved |-> resolved,
                  level_role_xp |-> 0, custom_role_xp |-> 0, auto_role_xp |-> 0,
                  total |-> 0]
    IN  IF ~user_data.ok THEN [rows |-> rows, shown |-> parts]
        ELSE IF ~resolved
        THEN [rows |-> user_data.rows, shown |-> [parts EXCEPT !.total = base_xp]]
        ELSE [rows |-> user_data.rows,
              shown |-> [parts EXCEPT
                  !.level_role_xp = level_role_xp,
                  !.custom_role_xp = custom_role_xp,
                  !.auto_role_xp = auto_role_xp,
                  !.total = TotalOf(base_xp, level_role_xp, custom_role_xp,
                                    auto_role_xp)]]

\* check_xp for the member target_member of guild g, whom guild.get_member
\* resolves or not, and who holds the roles roles and the roles named "Level "
\* + name for name in named besides their tier roles: the call of
\* calculate_total_user_xp, the level of the total, the stats sent.
check_xp(target_member, g, roles, named) ==
    /\ events < MaxEvents
    /\ events' = events + 1
    /\ \E res \in {calculate_total_user_xp(users, target_member, g,
                       <<target_member, g>> \in present,
                       HeldNames(memberRoles[<<target_member, g>>]) \cup named,
                       roles, role_xp_assignments)} :
       LET current_xp == res.shown.total
           current_level == calculate_level(current_xp)
       IN  /\ users' = res.rows
           /\ durable' = IF res.rows # users THEN res.rows ELSE durable
           /\ saved' = IF res.rows # users THEN settings ELSE saved
           /\ kept' = IF res.rows # users THEN quests ELSE kept
           /\ shown' = res.shown
           /\ sent' = IF res.shown.ok
                      THEN [Answer("check_xp", g, target_member, 0, "XP Stats")
                               EXCEPT !.xp = current_xp, !.level = current_level]
                      ELSE Answer("check_xp", g, target_member, 0,
                                  "Could not retrieve XP data.")
    /\ UNCHANGED <<quests, settings, quest_ping_role_id, quest_channel_id,
                   role_xp_assignments, guildRoles, memberRoles, present, posted,
                   announcing, tasks, updates, calls, applied, lastAdjust,
                   signals, ended, failed, overlapped, initRoles, assigning,
                   finished, creating, extraRoles, board, showing>>

\* ------------------------------------------------- creation of tier roles
\* The loop of create_level_roles from level on, up to its next await: the
\* first level with no role of its name in the guild, 11 when there is none.
RECURSIVE CreateLoop(_, _)
CreateLoop(roles, level) ==
    IF level > 10 THEN 11
    ELSE IF level \notin roles THEN level
    ELSE CreateLoop(roles, level + 1)

\* on_ready from the guild Head(order) on: for guild in bot.guilds:
\* load_settings(guild.id); await create_level_roles(guild), up to the first
\* create_role it has to wait for.  The attributes of quest_bot after the
\* loads, and the call of create_level_roles left waiting (none: level 11).
RECURSIVE ReadyLoop(_, _, _, _)
ReadyLoop(order, mem, rows, roles) ==
    IF order = <<>>
    THEN [mem |-> mem, level |-> 11, guild_id |-> 0, then |-> <<>>]
    ELSE LET g == Head(order)
             loaded == load_settings(mem, rows, g)
             level == CreateLoop(roles[g], 1)
         IN  IF level = 11 THEN ReadyLoop(Tail(order), loaded, rows, roles)
             ELSE [mem |-> loaded, level |-> level, guild_id |-> g,
                   then |-> Tail(order)]

Memory == [quest_ping_role_id |-> quest_ping_role_id,
           quest_channel_id |-> quest_channel_id,
           role_xp_assignments |-> role_xp_assignments]

\* The attributes of quest_bot become mem; the call of create_level_roles at
\* says is left waiting takes the place of call i (0: it is a new one).
ReadyGoesOn(i, at) ==
    LET others == IF i = 0 THEN creating
                  ELSE SubSeq(creating, 1, i - 1)
                           \o SubSeq(creating, i + 1, Len(creating))
    IN  /\ quest_ping_role_id' = at.mem.quest_ping_role_id
        /\ quest_channel_id' = at.mem.quest_channel_id
        /\ role_xp_assignments' = at.mem.role_xp_assignments
        /\ creating' = IF at.level = 11 THEN others
                       ELSE Append(others, [guild_id |-> at.guild_id,
                                            level |-> at.level, then |-> at.then])

\* on_ready: the gateway session is ready (at the start, and again after a
\* reconnection); bot.guilds comes in the order order.
on_ready(order) ==
    /\ events < MaxEvents
    /\ events' = events + 1
    /\ ReadyGoesOn(0, ReadyLoop(order, Memory, settings, guildRoles))
    /\ UNCHANGED <<users, quests, settings, guildRoles, memberRoles, present,
                   posted, announcing, tasks, updates, calls, applied,
                   lastAdjust, signals, ended, failed, overlapped, initRoles,
                   assigning, finished, extraRoles, shown,
                   sent, board, showing, durable, saved, kept>>

\* The process is started again: quest_bot = QuestBot() has the attributes of
\* __init__, every handler and task of the old process is gone, the tables
\* are as they were committed and the platform is as it was; then on_ready.
Restart(order) ==
    /\ events < MaxEvents
    /\ events' = events + 1
    /\ LET at == ReadyLoop(order, [quest_ping_role_id |-> 0, quest_channel_id |-> 0,
                                   role_xp_assignments |-> <<>>],
                           saved, guildRoles)
       IN  /\ quest_ping_role_id' = at.mem.quest_ping_role_id
           /\ quest_channel_id' = at.mem.quest_channel_id
           /\ role_xp_assignments' = at.mem.role_xp_assignments
           /\ creating' = IF at.level = 11 THEN <<>>
                          ELSE <<[guild_id |-> at.guild_id, level |-> at.level,
                                  then |-> at.then]>>
    /\ tasks' = <<>>
    /\ updates' = {}
    /\ announcing' = {}
    /\ assigning' = {}
    /\ showing' = {}
    /\ users' = durable
    /\ settings' = saved
    /\ quests' = kept
    /\ UNCHANGED <<guildRoles, memberRoles, present,
                   posted, calls, applied, lastAdjust, signals, ended, failed,
                   overlapped, initRoles, finished, extraRoles, shown,
                   sent, board, durable, saved, kept>>

\* slash_create_level_roles resumed after its defer: create_level_roles runs
\* to its first create_role, or to its end when no tier role is missing.
slash_create_level_roles(g) ==
    /\ events < MaxEvents
    /\ events' = events + 1
    /\ LET level == CreateLoop(guildRoles[g], 1)
       IN  creating' = IF level = 11 THEN creating
                       ELSE Append(creating, [guild_id |-> g, level |-> level,
                                              then |-> <<>>])
    /\ UNCHANGED <<users, quests, settings, quest_ping_role_id, quest_channel_id,
                   role_xp_assignments, guildRoles, memberRoles, present, posted,
                   announcing, tasks, updates, calls, applied, lastAdjust,
                   signals, ended, failed, overlapped, initRoles, assigning,
                   finished, extraRoles, shown,
                   sent, board, showing, durable, saved, kept>>

\* The call i of create_level_roles ends: on_ready, when the call is its own,
\* goes on with the guilds left.
CreateEnds(i, roles) ==
    LET c == creating[i]
    IN  ReadyGoesOn(i, ReadyLoop(c.then, Memory, settings, roles))

\* await guild.create_role(name=role_name) returns: the guild has one more
\* role of that name, and the loop goes on to the next name it does not find.
CreateReturned(i) ==
    /\ i \in 1..Len(creating)
    /\ LET c == creating[i]
           g == c.guild_id
           roles == [guildRoles EXCEPT ![g] = @ \cup {c.level}]
           level == CreateLoop(roles[g], c.level + 1)
       IN  /\ guildRoles' = roles
           /\ extraRoles' = IF c.level \in guildRoles[g]
                            THEN [extraRoles EXCEPT ![g] = @ \cup {c.level}]
                            ELSE extraRoles
           /\ IF level = 11 THEN CreateEnds(i, roles)
              ELSE /\ creating' = [creating EXCEPT ![i].level = level]
                   /\ UNCHANGED <<quest_ping_role_id, quest_channel_id,
                                  role_xp_assignments>>
    /\ UNCHANGED <<users, quests, settings, memberRoles, present, posted,
                   announcing, tasks, updates, events, calls, applied,
                   lastAdjust, signals, ended, failed, overlapped, initRoles,
                   assigning, finished, shown,
                   sent, board, showing, durable, saved, kept>>

\* await guild.create_role raises: the except clause of create_level_roles
\* prints the failure and the call ends.
CreateFails(i) ==
    /\ i \in 1..Len(creating)
    /\ CreateEnds(i, guildRoles)
    /\ UNCHANGED <<users, quests, settings, guildRoles, memberRoles, present,
                   posted, announcing, tasks, updates, events, calls, applied,
                   lastAdjust, signals, ended, failed, overlapped, initRoles,
                   assigning, finished, extraRoles, shown,
                   sent, board, showing, durable, saved, kept>>

\* -------------------------------------------------- bulk role assignment
\* get_leaderboard(guild_id, limit): SELECT user_id, xp, level FROM users WHERE
\* guild_id = ? ORDER BY xp DESC LIMIT ?, as a sequence of <<user_id, xp,
\* level>>.  Rows of equal xp come in rowid order, the rowid of a users row
\* being its user_id (INTEGER PRIMARY KEY).
RECURSIVE OrderByXpDesc(_)
OrderByXpDesc(rows) ==
    IF rows = {} THEN <<>>
    ELSE LET first == CHOOSE r \in rows :
                 \A q \in rows : \/ q.xp < r.xp
                                 \/ (q.xp = r.xp /\ q.user_id >= r.user_id)
         IN  <<<<first.user_id, first.xp, first.level>>>>
                 \o OrderByXpDesc(rows \ {first})

get_leaderboard_every_guild(rows, g, limit) ==
    LET ordered == OrderByXpDesc(rows)
    IN  SubSeq(ordered, 1, IF Len(ordered) < limit THEN Len(ordered) ELSE limit)

get_leaderboard(rows, g, limit) ==
    LET ordered == OrderByXpDesc({r \in rows : r.guild_id = g})
    IN  SubSeq(ordered, 1, IF Len(ordered) < limit THEN Len(ordered) ELSE limit)

\* The bulk assignments that have started so far.
RECURSIVE Completed(_)
Completed(gs) ==
    IF gs = {} THEN 0
    ELSE LET g == CHOOSE g \in gs : TRUE
         IN  finished[g].n + finished[g].lost + Completed(gs \ {g})

RunsSoFar == Completed(Guilds) + Cardinality(assigning)

NoTaskIn(g) == \A i \in 1..Len(tasks) : tasks[i].guild_id # g

AssignAfterRemove_only_bare(g, rest, roles) ==
    IF Head(rest)[3] \in roles /\ memberRoles[<<Head(rest)[1], g>>] = {}
    THEN "adding" ELSE "next"

\* level_role = discord.utils.get(guild.roles, name=level_role_name);
\* if level_role: await member.add_roles(level_role)
AssignAfterRemove(g, rest, roles) ==
    IF Head(rest)[3] \in roles THEN "adding" ELSE "next"

\* The loop of slash_assign_level_roles over the rows rest up to its next
\* await: the rows of members get_member does not resolve are passed over;
\* the result is the rows left (the first being the one in hand), where the
\* handler waits, and the level roles it is removing.
RECURSIVE AssignLoop(_, _, _, _, _)
AssignLoop(g, rest, here, held, roles) ==
    IF rest = <<>> THEN [rest |-> <<>>, pc |-> "done", level_roles |-> {}]
    ELSE LET p == <<Head(rest)[1], g>>
         IN  IF p \notin here THEN AssignLoop(g, Tail(rest), here, held, roles)
             ELSE IF held[p] # {}
             THEN [rest |-> rest, pc |-> "removing", level_roles |-> held[p]]
             ELSE IF AssignAfterRemove(g, rest, roles) = "adding"
             THEN [rest |-> rest, pc |-> "adding", level_roles |-> {}]
             ELSE AssignLoop(g, Tail(rest), here, held, roles)

\* The handler a goes on as at says: it waits again, or it has handled every
\* row and sends its report, and what it leaves is recorded for the guild.
AssignGoesOn(a, at, held) ==
    LET g == a.guild_id
        prev == finished[g]
    IN  IF at.pc = "done"
        THEN /\ assigning' = assigning \ {a}
             /\ finished' = [finished EXCEPT ![g] =
                    [n |-> prev.n + 1,
                     lost |-> prev.lost,
                     clean |-> a.calls0 = calls /\ a.idle /\ a.alone,
                     quiet |-> /\ prev.n >= 1 /\ prev.clean
                               /\ a.n0 = prev.n /\ a.alone
                               /\ prev.calls = calls
                               /\ prev.present = present
                               /\ prev.guildRoles = guildRoles[g],
                     calls |-> calls,
                     present |-> present,
                     guildRoles |-> guildRoles[g],
                     roles |-> [m \in Members |-> held[<<m, g>>]],
                     before |-> prev.roles]]
        ELSE /\ assigning' = (assigning \ {a}) \cup
                    {[a EXCEPT !.rest = at.rest, !.pc = at.pc,
                               !.level_roles = at.level_roles]}
             /\ finished' = finished

\* slash_assign_level_roles resumed after its defer: the rows of the guild
\* are read, and the loop runs to its first await.
slash_assign_level_roles(g) ==
    /\ RunsSoFar < MaxRuns
    /\ LET others == {a \in assigning : a.guild_id = g}
           leaderboard_data == get_leaderboard(users, g, 1000)
           a == [guild_id |-> g, rest |-> leaderboard_data, pc |-> "start",
                 level_roles |-> {}, calls0 |-> calls, n0 |-> finished[g].n,
                 idle |-> NoTaskIn(g), alone |-> others = {}]
           at == AssignLoop(g, leaderboard_data, present, memberRoles,
                            guildRoles[g])
       IN  IF at.pc = "done"
           THEN AssignGoesOn(a, at, memberRoles)
           ELSE /\ assigning' =
                       {IF b \in others THEN [b EXCEPT !.alone = FALSE] ELSE b
                        : b \in assigning}
                       \cup {[a EXCEPT !.rest = at.rest, !.pc = at.pc,
                                       !.level_roles = at.level_roles]}
                /\ finished' = finished
    /\ UNCHANGED <<users, quests, settings, quest_ping_role_id, quest_channel_id,
                   role_xp_assignments, guildRoles, memberRoles, present, posted,
                   announcing, tasks, updates, events, calls, applied,
                   lastAdjust, signals, ended, failed, overlapped, initRoles,
                   creating, extraRoles, shown,
                   sent, board, showing, durable, saved, kept>>

\* await member.remove_roles(*level_roles) returns: the roles are removed and
\* the handler goes on to the role of the stored level.
AssignRemoved(a) ==
    /\ a \in assigning
    /\ a.pc = "removing"
    /\ LET g == a.guild_id
           p == <<Head(a.rest)[1], g>>
           held == [memberRoles EXCEPT ![p] = @ \ a.level_roles]
       IN  /\ p \in present
           /\ memberRoles' = held
           /\ AssignGoesOn(a,
                  IF AssignAfterRemove(g, a.rest, guildRoles[g]) = "adding"
                  THEN [rest |-> a.rest, pc |-> "adding", level_roles |-> {}]
                  ELSE AssignLoop(g, Tail(a.rest), present, held, guildRoles[g]),
                  held)
    /\ UNCHANGED <<users, quests, settings, quest_ping_role_id, quest_channel_id,
                   role_xp_assignments, guildRoles, present, posted,
                   announcing, tasks, updates, events, calls, applied,
                   lastAdjust, signals, ended, failed, overlapped, initRoles,
                   creating, extraRoles, shown,
                   sent, board, showing, durable, saved, kept>>

\* await member.add_roles(level_role) returns: the role is held, and the loop
\* goes on with the next row.
AssignAdded(a) ==
    /\ a \in assigning
    /\ a.pc = "adding"
    /\ LET g == a.guild_id
           p == <<Head(a.rest)[1], g>>
           held == [memberRoles EXCEPT ![p] = @ \cup {Head(a.rest)[3]}]
       IN  /\ p \in present
           /\ memberRoles' = held
           /\ AssignGoesOn(a, AssignLoop(g, Tail(a.rest), present, held,
                                         guildRoles[g]), held)
    /\ UNCHANGED <<users, quests, settings, quest_ping_role_id, quest_channel_id,
                   role_xp_assignments, guildRoles, present, posted,
                   announcing, tasks, updates, events, calls, applied,
                   lastAdjust, signals, ended, failed, overlapped, initRoles,
                   creating, extraRoles, shown,
                   sent, board, showing, durable, saved, kept>>

\* await member.remove_roles / add_roles raises (no permission, the member
\* has left): nothing in the handler catches it, and the handler is gone.
AssignFails(a) ==
    /\ a \in assigning
    /\ assigning' = assigning \ {a}
    /\ finished' = [finished EXCEPT ![a.guild_id].lost = @ + 1]
    /\ UNCHANGED <<users, quests, settings, quest_ping_role_id, quest_channel_id,
                   role_xp_assignments, guildRoles, memberRoles, present, posted,
                   announcing, tasks, updates, events, calls, applied,
                   lastAdjust, signals, ended, failed, overlapped, initRoles,
                   creating, extraRoles, shown,
                   sent, board, showing, durable, saved, kept>>

\* ------------------------------------------------- failures of the database
\* A statement of update_user_xp raises sqlite3.Error: the SELECT of
\* get_user_data ("select"), the UPDATE ("update"), or the commit that follows
\* it; the commit that raises has rolled the transaction back ("commit": disk
\* full, I/O error) or has left it open ("busy": the file is locked by another
\* connection), the UPDATE then pending in the connection.  No handler rolls
\* back.  The tables as the connection reads them and as they are committed,
\* after the call; when the INSERT of get_user_data is refused, that is what
\* raises, and nothing has changed.
update_user_xp_fails(rows, u, g, xp_change, at) ==
    LET current_data == get_user_data(rows, u, g)
        inserted == current_data.rows # rows
        committed == IF inserted THEN current_data.rows ELSE durable
        settled == IF inserted THEN settings ELSE saved
        stored == IF inserted THEN quests ELSE kept
        new_xp == ClampedSum(current_data.xp, xp_change)
        new_level == calculate_level(new_xp)
    IN  IF at = "select" \/ ~current_data.ok
        THEN [rows |-> rows, durable |-> durable, settings |-> settings,
              saved |-> saved, quests |-> quests, kept |-> kept]
        ELSE IF at = "update"
        THEN [rows |-> current_data.rows, durable |-> committed,
              settings |-> settings, saved |-> settled,
              quests |-> quests, kept |-> stored]
        ELSE IF at = "commit"
        THEN [rows |-> committed, durable |-> committed, settings |-> settled,
              saved |-> settled, quests |-> stored, kept |-> stored]
        ELSE [rows |-> UpdateUser(current_data.rows, u, g, new_xp, new_level),
              durable |-> committed, settings |-> settings, saved |-> settled,
              quests |-> quests, kept |-> stored]

\* The handler of a command that calls update_user_xp(u, g, xp_change), the
\* call raising at the statement at: the exception leaves the handler and
\* on_command_error answers.
AdjustFails(handler, u, g, xp_change, at) ==
    /\ events < MaxEvents
    /\ events' = events + 1
    /\ <<u, g>> \in present
    /\ LET res == update_user_xp_fails(users, u, g, xp_change, at)
       IN  /\ users' = res.rows
           /\ durable' = res.durable
           /\ settings' = res.settings
           /\ saved' = res.saved
           /\ quests' = res.quests
           /\ kept' = res.kept
    /\ calls' = calls + 1
    /\ lastAdjust' = [user_id |-> u, guild_id |-> g, ok |-> FALSE,
                      new_xp |-> 0, new_level |-> 1]
    /\ sent' = Answer(handler, g, u, 0, ErrorText)
    /\ UNCHANGED <<quest_ping_role_id, quest_channel_id,
                   role_xp_assignments, guildRoles, memberRoles, present, posted,
                   announcing, tasks, updates, applied, signals, ended, failed,
                   overlapped, initRoles, assigning, finished, creating,
                   extraRoles, shown, board, showing>>

add_xp_fails(member, g, amount, at) == AdjustFails("add_xp", member, g, amount, at)

remove_xp_fails(member, g, amount, at) ==
    AdjustFails("remove_xp", member, g, -amount, at)

\* set_quest_ping for a role of the guild, save_settings raising: at the
\* INSERT OR REPLACE ("update"), or at its commit, the transaction rolled back
\* ("commit") or left open ("busy").  The attribute of quest_bot is set before.
set_quest_ping_fails(g, role_id, at) ==
    /\ events < MaxEvents
    /\ events' = events + 1
    /\ GetRole(g, role_id)
    /\ quest_ping_role_id' = role_id
    /\ settings' = IF at = "update" THEN settings
                   ELSE IF at = "commit" THEN saved
                   ELSE SaveRow(settings, g, role_id, quest_channel_id,
                                role_xp_assignments)
    /\ users' = IF at = "commit" THEN durable ELSE users
    /\ quests' = IF at = "commit" THEN kept ELSE quests
    /\ sent' = Answer("set_quest_ping", g, role_id, 0, ErrorText)
    /\ UNCHANGED <<quest_channel_id, role_xp_assignments,
                   guildRoles, memberRoles, present, posted, announcing, tasks,
                   updates, calls, applied, lastAdjust, signals, ended, failed,
                   overlapped, initRoles, assigning, finished, creating,
                   extraRoles, shown, board, showing, durable, saved, kept>>

\* on_reaction_add by a member who is not in completed_users of the stored
\* quest, update_user_xp having returned (the award is committed), when the
\* UPDATE of quests that follows raises ("update"), or its commit, the
\* transaction rolled back ("commit") or left open ("busy", the UPDATE then
\* pending in the connection).  The exception leaves the handler; nothing is
\* sent.
on_reaction_add_fails(msg, user, at) ==
    /\ events < MaxEvents
    /\ events' = events + 1
    /\ MessageGuild(msg) # 0
    /\ <<user, MessageGuild(msg)>> \in present
    /\ SelectQuest(quests, msg) # {}
    /\ \E q \in SelectQuest(quests, msg),
          res \in {update_user_xp(users, user, MessageGuild(msg), QuestReward)} :
           /\ NotCompleted(q.completed_users, user)
           /\ res.ok
           /\ Adjusted(user, MessageGuild(msg), QuestReward, res)
           /\ quests' = IF at = "busy"
                        THEN MarkCompleted(quests, msg,
                                 Append(q.completed_users, user))
                        ELSE quests
           /\ kept' = quests
    /\ signals' = [signals EXCEPT ![<<msg, user>>] = Append(@, "Error")]
    /\ sent' = Answer("on_reaction_add", MessageGuild(msg), msg, user, "")
    /\ UNCHANGED <<settings, quest_ping_role_id, quest_channel_id,
                   role_xp_assignments, guildRoles, memberRoles, present, posted,
                   announcing, updates, ended, failed, initRoles,
                   assigning, finished, creating, extraRoles, shown,
                   board, showing>>

\* ------------------------------------------------------------ leaderboard
\* A call quest_bot.get_leaderboard(g, limit): what it returns.
get_leaderboard_call(g, limit) ==
    /\ events < MaxEvents
    /\ events' = events + 1
    /\ board' = [guild_id |-> g, limit |-> limit,
                 leaderboard_data |-> get_leaderboard(users, g, limit)]
    /\ UNCHANGED <<users, quests, settings, quest_ping_role_id, quest_channel_id,
                   role_xp_assignments, guildRoles, memberRoles, present, posted,
                   announcing, tasks, updates, calls, applied, lastAdjust,
                   signals, ended, failed, overlapped, initRoles, assigning,
                   finished, creating, extraRoles, shown, sent, showing,
                   durable, saved, kept>>

\* user = ctx.guild.get_member(user_id); if not user: user = bot.get_user(user_id)
GetUser(here, user_id, g) ==
    <<user_id, g>> \in here \/ \E other \in Guilds : <<user_id, other>> \in here

\* The loop of leaderboard over the rows rest, up to its next await: the total
\* of each row's member is computed, and for a member neither get_member nor
\* get_user resolves the handler waits for fetch_user.  other gives the roles
\* that are no tier roles, per member; last is the latest total computed.
RECURSIVE LeaderLoop(_, _, _, _, _, _, _, _)
LeaderLoop(rows, g, rest, here, held, other, assignments, last) ==
    IF rest = <<>>
    THEN [rows |-> rows, rest |-> rest, shown |-> last, pc |-> "done"]
    ELSE LET user_id == Head(rest)[1]
             res == calculate_total_user_xp(rows, user_id, g,
                        <<user_id, g>> \in here, HeldNames(held[<<user_id, g>>]),
                        other[user_id], assignments)
         IN  IF ~res.shown.ok
             THEN [rows |-> res.rows, rest |-> <<>>, shown |-> res.shown,
                   pc |-> "failed"]
             ELSE IF GetUser(here, user_id, g)
             THEN LeaderLoop(res.rows, g, Tail(rest), here, held, other,
                             assignments, res.shown)
             ELSE [rows |-> res.rows, rest |-> Tail(rest), shown |-> res.shown,
                   pc |-> "fetching"]

\* The handler goes on as at says: it waits for fetch_user, or it sends the
\* leaderboard (the error message, when calculate_total_user_xp raised).
LeaderGoesOn(h, at) ==
    /\ users' = at.rows
    /\ durable' = IF at.rows # users THEN at.rows ELSE durable
    /\ saved' = IF at.rows # users THEN settings ELSE saved
    /\ kept' = IF at.rows # users THEN quests ELSE kept
    /\ shown' = at.shown
    /\ showing' = (showing \ {h}) \cup
           (IF at.pc = "fetching" THEN {[h EXCEPT !.rest = at.rest]} ELSE {})
    /\ sent' = IF at.pc = "done"
               THEN Answer("leaderboard", h.guild_id, 0, 0, "XP Leaderboard")
               ELSE IF at.pc = "failed"
               THEN Answer("leaderboard", h.guild_id, 0, 0,
                           "Could not retrieve leaderboard data.")
               ELSE sent

\* leaderboard / slash_leaderboard in guild g: get_leaderboard(g, 10), then the
\* loop over its rows up to the first await.
leaderboard(g, other) ==
    /\ events < MaxEvents
    /\ events' = events + 1
    /\ LET leaderboard_data == get_leaderboard(users, g, 10)
           h == [guild_id |-> g, rest |-> leaderboard_data, other |-> other]
       IN  /\ board' = [guild_id |-> g, limit |-> 10,
                        leaderboard_data |-> leaderboard_data]
           /\ LeaderGoesOn(h, LeaderLoop(users, g, leaderboard_data, present,
                                         memberRoles, other, role_xp_assignments,
                                         shown))
    /\ UNCHANGED <<quests, settings, quest_ping_role_id, quest_channel_id,
                   role_xp_assignments, guildRoles, memberRoles, present, posted,
                   announcing, tasks, updates, calls, applied, lastAdjust,
                   signals, ended, failed, overlapped, initRoles, assigning,
                   finished, creating, extraRoles>>

\* await bot.fetch_user(user_id) returns or raises: either way a field is
\* added for the row, and the loop goes on with the next row.
LeaderboardFetched(h) ==
    /\ h \in showing
    /\ LeaderGoesOn(h, LeaderLoop(users, h.guild_id, h.rest, present, memberRoles,
                                  h.other, role_xp_assignments, shown))
    /\ UNCHANGED <<quests, settings, quest_ping_role_id, quest_channel_id,
                   role_xp_assignments, guildRoles, memberRoles, present, posted,
                   announcing, tasks, updates, events, calls, applied, lastAdjust,
                   signals, ended, failed, overlapped, initRoles, assigning,
                   finished, creating, extraRoles, board>>

\* ------------------------------------------------------- specification
Handlers ==
    \/ \E m \in Members, g \in Guilds, a \in Amounts : add_xp(m, g, a)
    \/ \E m \in Members, g \in Guilds, a \in Amounts : remove_xp(m, g, a)
    \/ \E g \in Guilds, r \in CustomRoles, a \in RoleXpAmounts :
           assign_role_xp(g, r, a)
    \/ \E g \in Guilds, msg \in Messages : add_quest_send(g, msg)
    \/ \E a \in announcing : add_quest_save(a)
    \/ \E msg \in Messages \cup ChatMessages : remove_quest(msg)
    \/ \E msg \in Messages \cup ChatMessages, m \in Members :
           on_reaction_add(msg, m)
    \/ \E m \in Members, g \in Guilds, added \in SUBSET CustomRoles :
           on_member_update(m, g, added)
    \/ \E h \in updates : on_member_update_resume(h)

Reconciliation ==
    \/ \E i \in 1..Len(tasks) : ReconcileStart(i)
    \/ \E i \in 1..Len(tasks) : ReconcileRemoved(i)
    \/ \E i \in 1..Len(tasks) : ReconcileCreated(i, 11)
    \/ \E i \in 1..Len(tasks) : ReconcileAdded(i)

PlatformFailures ==
    \/ \E i \in 1..Len(tasks) : ReconcileRemoveFails(i)
    \/ \E i \in 1..Len(tasks), stop \in CreateStops \ {11} :
           ReconcileCreated(i, stop)
    \/ \E i \in 1..Len(tasks) : ReconcileAddFails(i)
    \/ \E m \in Leavers, g \in Guilds : MemberLeaves(m, g)

AssignAll ==
    \/ \E g \in Guilds : slash_assign_level_roles(g)
    \/ \E a \in assigning : AssignRemoved(a)
    \/ \E a \in assigning : AssignAdded(a)
    \/ \E a \in assigning : AssignFails(a)

\* The settings commands.
SettingsCommands ==
    \/ \E g \in Guilds, role_id \in PingRoleIds : set_quest_ping(g, role_id)
    \/ \E g \in Guilds, channel_id \in ChannelIds : set_quest_channel(g, channel_id)
    \/ \E g \in Guilds, r \in CustomRoles, a \in RoleXpAmounts :
           assign_role_xp(g, r, a)

\* The start of the bot and the creation of the tier roles.
Startup ==
    \/ \E order \in GuildOrders : on_ready(order)
    \/ \E order \in GuildOrders : Restart(order)
    \/ \E g \in Guilds : slash_create_level_roles(g)

CreateResumed ==
    \/ \E i \in 1..Len(creating) : CreateReturned(i)
    \/ \E i \in 1..Len(creating) : CreateFails(i)

\* The commands that show a total.
Totals ==
    \E m \in Members, g \in Guilds, roles \in SUBSET OtherRoles :
        check_xp(m, g, roles, {})

\* The leaderboard command and the calls of get_leaderboard.
Boards ==
    \/ \E g \in Guilds, other \in BoardRoles : leaderboard(g, other)
    \/ \E g \in Guilds, limit \in Limits : get_leaderboard_call(g, limit)

BoardResumed == \E h \in showing : LeaderboardFetched(h)

\* The commands in which a statement on the database raises.
StoreFailures ==
    \/ \E m \in Members, g \in Guilds, a \in Amounts, at \in FailurePoints :
           add_xp_fails(m, g, a, at)
    \/ \E m \in Members, g \in Guilds, a \in Amounts, at \in FailurePoints :
           remove_xp_fails(m, g, a, at)
    \/ \E g \in Guilds, role_id \in PingRoleIds, at \in FailurePoints \ {"select"} :
           set_quest_ping_fails(g, role_id, at)

\* The completions in which the UPDATE of quests, or its commit, raises.
RewardFailures ==
    \E msg \in Messages, m \in Members, at \in FailurePoints \ {"select"} :
        on_reaction_add_fails(msg, m, at)

\* The role changes of members, and the handlers of them that go on or fail.
RoleChanges ==
    \E m \in Members, g \in Guilds, change \in GrantChanges :
        on_member_update_event(m, g, change[1], change[2])

GrantResumed ==
    \/ \E h \in updates : on_member_update_resume(h)
    \/ \E h \in updates : on_member_update_fails(h)

Next ==
    \/ Handlers \/ Reconciliation \/ PlatformFailures \/ AssignAll
    \/ SettingsCommands \/ Startup \/ CreateResumed \/ Totals
    \/ Boards \/ BoardResumed \/ StoreFailures \/ RewardFailures
    \/ RoleChanges \/ GrantResumed

\* The whole system.
Spec == Init /\ [][Next]_vars

\* The ledger, the quests and the settings: every handler, the reconciliation
\* tasks they create not yet run.
SpecLedger == Init /\ [][Handlers]_vars

\* The staff commands and the reconciliation tasks they create, with the
\* platform's failures.
Staff ==
    /\ events < MaxRoleEvents
    /\ \/ \E m \in Members, g \in Guilds, a \in Amounts : add_xp(m, g, a)
       \/ \E m \in Members, g \in Guilds, a \in Amounts : remove_xp(m, g, a)

Failures ==
    \/ \E i \in 1..Len(tasks) : ReconcileRemoveFails(i)
    \/ \E i \in 1..Len(tasks), stop \in CreateStops \ {11} :
           ReconcileCreated(i, stop)
    \/ \E i \in 1..Len(tasks) : ReconcileAddFails(i)
    \/ /\ events < MaxRoleEvents
       /\ \E m \in Leavers, g \in Guilds : MemberLeaves(m, g)

SpecRoles == InitHolding /\ [][Staff \/ Reconciliation \/ Failures]_vars

\* Scheduling of the event loop: a task whose await can return is resumed.
SpecRolesFair == SpecRoles /\ WF_vars(Reconciliation)

\* The settings of the guilds, set by the commands.
FewSettingsCommands == events < MaxSetupEvents /\ SettingsCommands

SpecSettings == Init /\ [][FewSettingsCommands]_vars

\* The settings, the starts of the bot and the creation of the tier roles.
SetupCommands == events < MaxStartEvents /\ (SettingsCommands \/ Startup)

SpecSetup == Init /\ [][SetupCommands \/ CreateResumed]_vars

\* The totals shown, for the ledgers, the tier roles held and the role-to-XP
\* maps (with negative amounts) the commands can have made.
TotalLedgers ==
    {{},
     {[user_id |-> 1, guild_id |-> 1, xp |-> 0, level |-> 1]},
     {[user_id |-> 1, guild_id |-> 1, xp |-> 120, level |-> 2]},
     {[user_id |-> 1, guild_id |-> 1, xp |-> 120, level |-> 2],
      [user_id |-> 2, guild_id |-> 2, xp |-> 50, level |-> 1]}}

TotalHoldings ==
    {[p \in Pairs |-> IF p = <<1, 1>> THEN r ELSE {}] : r \in {{}, {2}, {1, 3}}}

TotalAssignments ==
    {<<>>,
     (1 :> (1 :> 30)),
     (1 :> (1 :> 30 @@ 2 :> -40)),
     (1 :> (1 :> 30) @@ 2 :> (2 :> -40))}

InitTotal ==
    \E rows \in TotalLedgers, held \in TotalHoldings,
       assignments \in TotalAssignments : Started(rows, held, assignments)

FewTotals == events < MaxTotalCalls /\ Totals

SpecTotal == InitTotal /\ [][FewTotals]_vars

\* The leaderboards and the totals shown, for ledgers of one and of two
\* guilds and for members get_member does not resolve.
BoardLedgers ==
    {{},
     {[user_id |-> 1, guild_id |-> 1, xp |-> 120, level |-> 2],
      [user_id |-> 2, guild_id |-> 1, xp |-> 600, level |-> 3]},
     {[user_id |-> 1, guild_id |-> 1, xp |-> 120, level |-> 2],
      [user_id |-> 2, guild_id |-> 2, xp |-> 50, level |-> 1]}}

BoardHoldings ==
    {[p \in Pairs |-> IF p = <<1, 1>> THEN r ELSE {}] : r \in {{}, {3}}}

BoardPresent == {Pairs, Pairs \ {<<1, 1>>}, {<<2, 1>>, <<2, 2>>}}

InitBoard ==
    \E rows \in BoardLedgers, held \in BoardHoldings, here \in BoardPresent :
        StartedAmong(rows, held, (1 :> (1 :> 30)), here)

BoardCommands ==
    /\ events < MaxBoardCalls
    /\ \/ Boards
       \/ \E m \in Members, g \in Guilds, other \in BoardRoles :
              check_xp(m, g, other[m], {})

SpecBoard == InitBoard /\ [][BoardCommands \/ BoardResumed]_vars

\* The totals of members who hold none, one or several tier roles, and roles
\* named "Level " + name for names that are no tier's: a number outside
\* 1..10 as str writes it, or no number.
OddNames == {<<"0">>, <<"1", "1">>, <<"-", "1">>, <<"u", "p">>}

NameHoldings ==
    {[p \in Pairs |-> IF p = <<1, 1>> THEN r ELSE {}] :
        r \in {{}, {1}, {2}, {2, 3}, {10}, {3, 10}}}

InitNames ==
    \E held \in NameHoldings :
        Started({[user_id |-> 1, guild_id |-> 1, xp |-> 120, level |-> 2]},
                held, <<>>)

NamedTotals ==
    /\ events < MaxNameCalls
    /\ \E m \in Members, g \in Guilds, named \in SUBSET OddNames :
           check_xp(m, g, {}, named)

SpecNames == InitNames /\ [][NamedTotals]_vars

\* The level of every stored xp from 0 to MaxXp, as check_xp shows it: the
\* one record of the ledger has any of these xp, and the level update_user_xp
\* stored with it.
InitLevels ==
    \E xp \in 0..MaxXp :
        Started({[user_id |-> 1, guild_id |-> 1, xp |-> xp,
                  level |-> calculate_level(xp)]},
                [p \in Pairs |-> {}], <<>>)

LevelShown ==
    /\ events < MaxLevelCalls
    /\ \E m \in Members, g \in Guilds : check_xp(m, g, {}, {})

SpecLevels == InitLevels /\ [][LevelShown]_vars

\* The adjustments and the saves of settings, any of which may fail at the
\* database, the totals read after them and the restart of the process.
StoreCommands ==
    /\ events < MaxStoreEvents
    /\ \/ \E m \in Members, g \in Guilds, a \in Amounts : add_xp(m, g, a)
       \/ \E m \in Members, g \in Guilds, a \in Amounts : remove_xp(m, g, a)
       \/ \E g \in Guilds, role_id \in PingRoleIds : set_quest_ping(g, role_id)
       \/ \E m \in Members, g \in Guilds : check_xp(m, g, {}, {})
       \/ \E order \in GuildOrders : Restart(order)
       \/ StoreFailures

SpecStorage == Init /\ [][StoreCommands]_vars

\* The quests announced and completed, the completions that fail at the
\* database after the award, and the restart of the process.
RewardCommands ==
    /\ events < MaxRewardEvents
    /\ \/ \E g \in Guilds, msg \in Messages : add_quest_send(g, msg)
       \/ \E msg \in Messages, m \in Members : on_reaction_add(msg, m)
       \/ \E order \in GuildOrders : Restart(order)
       \/ RewardFailures

QuestStored == \E a \in announcing : add_quest_save(a)

SpecReward == Init /\ [][RewardCommands \/ QuestStored]_vars

\* The quests announced where a quest channel is set, or none, and their
\* completions.
QuestCommands ==
    /\ events < MaxQuestEvents
    /\ \/ \E g \in Guilds, channel_id \in ChannelIds : set_quest_channel(g, channel_id)
       \/ \E g \in Guilds, msg \in Messages : add_quest_send(g, msg)
       \/ \E msg \in Messages, m \in Members : on_reaction_add(msg, m)

SpecQuests == Init /\ [][QuestCommands \/ QuestStored]_vars

\* The role changes of members in guilds with and without assignments, the
\* members having no record yet, or one in the other guild.
GrantLedgers ==
    {{}, {[user_id |-> 1, guild_id |-> 2, xp |-> 50, level |-> 1]}}

GrantAssignments == {<<>>, (1 :> (1 :> 30 @@ 2 :> 45))}

InitGrants ==
    \E rows \in GrantLedgers, assignments \in GrantAssignments :
        Started(rows, [p \in Pairs |-> {}], assignments)

FewRoleChanges == events < MaxGrantEvents /\ RoleChanges

SpecGrants == InitGrants /\ [][FewRoleChanges \/ GrantResumed]_vars

\* The bulk role assignment, after and beside the staff commands and the
\* reconciliation tasks that make the ledger and the roles it finds.
AssignCommands ==
    /\ events + RunsSoFar < MaxAssignCommands
    /\ \/ \E m \in Members, g \in Guilds, a \in Amounts : add_xp(m, g, a)
       \/ \E m \in Members, g \in Guilds, a \in Amounts : remove_xp(m, g, a)
       \/ \E g \in Guilds : slash_assign_level_roles(g)

AssignResumed ==
    \/ \E a \in assigning : AssignRemoved(a)
    \/ \E a \in assigning : AssignAdded(a)
    \/ \E a \in assigning : AssignFails(a)

\* Ledgers the staff commands have made by the time of a bulk assignment,
\* and tier roles member 1 then holds in guild 1: none, one, several.
AssignLedgers ==
    {{},
     {[user_id |-> 1, guild_id |-> 1, xp |-> 120, level |-> 2]},
     {[user_id |-> 1, guild_id |-> 1, xp |-> 120, level |-> 2],
      [user_id |-> 2, guild_id |-> 1, xp |-> 0, level |-> 1]},
     {[user_id |-> 1, guild_id |-> 1, xp |-> 1000, level |-> 3],
      [user_id |-> 2, guild_id |-> 2, xp |-> 0, level |-> 1]}}

AssignHoldings ==
    {[p \in Pairs |-> IF p = <<1, 1>> THEN r ELSE {}] : r \in {{}, {1}, {1, 3}}}

InitAssign ==
    \E rows \in AssignLedgers, held \in AssignHoldings : Started(rows, held, <<>>)

SpecAssign == InitAssign /\ [][AssignCommands \/ Reconciliation \/ AssignResumed]_vars

\* ================================================================ claims
\* LevelTable.levelFor of the specification: the greatest level whose
\* threshold is at most xp.
LevelFor(xp) ==
    CHOOSE l \in Levels :
        /\ LEVEL_THRESHOLDS[l] <= xp
        /\ \A k \in Levels : LEVEL_THRESHOLDS[k] <= xp => k <= l

\* xp with the deltas applied one after another, clamped at 0 after each.
RECURSIVE ApplyInOrder(_, _)
ApplyInOrder(xp, deltas) ==
    IF deltas = <<>> THEN xp
    ELSE ApplyInOrder(Max(0, xp + Head(deltas)), Tail(deltas))

RowsOf(rows, p) == {r \in rows : r.user_id = p[1] /\ r.guild_id = p[2]}
XpOf(rows, p) == IF RowsOf(rows, p) = {} THEN 0
                 ELSE (CHOOSE r \in RowsOf(rows, p) : TRUE).xp
LevelOf(rows, p) == IF RowsOf(rows, p) = {} THEN 1
                    ELSE (CHOOSE r \in RowsOf(rows, p) : TRUE).level
Last(seq) == seq[Len(seq)]

\* C1: the stored xp of every record is its initial xp (0) with every delta
\* of the adjusts that took effect on it applied in the order they took
\* effect, clamped at 0 after each, however the handlers interleaved; and a
\* record is stored for every pair an adjust took effect on.
C1_NoLostUpdate ==
    /\ \A r \in users :
           r.xp = ApplyInOrder(0, applied[<<r.user_id, r.guild_id>>])
    /\ \A p \in Pairs : applied[p] # <<>> => Cardinality(RowsOf(users, p)) = 1

\* An on_member_update handler has made its two awards of 30 and a staff
\* command for the same record took effect while it waited between them.
C1_Witness ==
    \E h \in updates :
        /\ h.new_roles = {1, 2}
        /\ h.pending = {}
        /\ applied[<<h.user_id, h.guild_id>>] = <<30, 120, 30>>
        /\ XpOf(users, <<h.user_id, h.guild_id>>) = 180

\* C2: on a stored quest the first completion signal of a member is Awarded
\* and every later one AlreadyCompleted, and the member's ledger got the 50 XP
\* reward of that quest once.
C2_AwardOnce ==
    \A k \in Messages \X Members :
        /\ \A i \in 1..Len(signals[k]) :
               signals[k][i] = IF i = 1 THEN "Awarded" ELSE "AlreadyCompleted"
        /\ signals[k] # <<>> =>
               Cardinality({i \in 1..Len(applied[<<k[2], posted[k[1]]>>]) :
                   applied[<<k[2], posted[k[1]]>>][i] = QuestReward}) = 1

\* C3: every stored record has level = levelFor(xp).
C3_LevelMatchesXp == \A r \in users : r.level = LevelFor(r.xp)

\* A record that went up to level 3 and a record brought back to level 1.
C3_Witness ==
    /\ \E r \in users : r.level = 3
    /\ \E r \in users :
           /\ r.level = 1
           /\ Len(applied[<<r.user_id, r.guild_id>>]) = 2
           /\ applied[<<r.user_id, r.guild_id>>][1] >= 100

\* C4: an adjust that returns has stored, and returned, max(0, oldXp + delta)
\* and the level of that xp (oldXp = 0 for a record it created).
C4_AdjustResult ==
    [][(calls' = calls + 1 /\ lastAdjust'.ok) =>
        LET p == <<lastAdjust'.user_id, lastAdjust'.guild_id>>
            delta == Last(applied'[p])
            newXp == Max(0, XpOf(users, p) + delta)
        IN  /\ applied'[p] = Append(applied[p], delta)
            /\ lastAdjust'.new_xp = newXp
            /\ lastAdjust'.new_level = LevelFor(newXp)
            /\ XpOf(users', p) = newXp
            /\ LevelOf(users', p) = LevelFor(newXp)
            /\ newXp >= 0]_vars

\* The scenario xp = 50, adjust(-1000): xp = 0, level = 1.
C4_Witness ==
    \E p \in Pairs :
        /\ applied[p] = <<50, -1000>>
        /\ lastAdjust = [user_id |-> p[1], guild_id |-> p[2], ok |-> TRUE,
                         new_xp |-> 0, new_level |-> 1]
        /\ XpOf(users, p) = 0

\* C5: for every member and every community, get returns the stored record or
\* creates the zeroed one, whatever records the member has elsewhere.
C5_GetForEveryPair ==
    \A p \in Pairs :
        LET got == get_user_data(users, p[1], p[2])
        IN  /\ got.ok
            /\ Cardinality(RowsOf(got.rows, p)) = 1
            /\ got.xp = XpOf(got.rows, p)
            /\ \A q \in Pairs \ {p} : RowsOf(got.rows, q) = RowsOf(users, q)

\* The number of level changes along a history of deltas, from xp.
RECURSIVE LevelChanges(_, _)
LevelChanges(xp, deltas) ==
    IF deltas = <<>> THEN 0
    ELSE LET next == Max(0, xp + Head(deltas))
         IN  (IF LevelFor(next) # LevelFor(xp) THEN 1 ELSE 0)
                 + LevelChanges(next, Tail(deltas))

NoTaskFor(p) ==
    \A i \in 1..Len(tasks) : <<tasks[i].user_id, tasks[i].guild_id>> # p

\* A resolvable member who started with no tier role but that of level 1, whose
\* level changed, and whose reconciliations have all ended with no failure.
Settled(p) ==
    /\ p \in present
    /\ initRoles[p] \subseteq {1}
    /\ LevelChanges(0, applied[p]) >= 1
    /\ NoTaskFor(p)
    /\ p \notin failed

\* C6: once the reconciliations of a member have all ended without
\* a failure, the member holds the tier role of the ledger level and no other.
C6_RolesFollowLedger ==
    \A p \in Pairs : Settled(p) => memberRoles[p] = {LevelOf(users, p)}

\* The case of C6 in which the code does reach the ledger level: a member none
\* of whose reconciliations was created while an earlier one was unfinished.
C6_RolesFollowLedgerInTurn ==
    \A p \in Pairs :
        (Settled(p) /\ p \notin overlapped) =>
            memberRoles[p] = {LevelOf(users, p)}

\* Two level changes of one member, reconciled one after the other.
C6_Witness ==
    \E p \in Pairs :
        /\ Settled(p) /\ p \notin overlapped
        /\ LevelChanges(0, applied[p]) = 2
        /\ initRoles[p] = {1}
        /\ memberRoles[p] = {LevelOf(users, p)}

Level1To2(p) ==
    \E i \in 1..Len(tasks) :
        /\ <<tasks[i].user_id, tasks[i].guild_id>> = p
        /\ tasks[i].old_level = 1 /\ tasks[i].new_level = 2

\* C7: a level 1 to level 2 transition of a resolvable member, the only level
\* change of that member, is followed, unless a platform call of the
\* reconciliation fails, by the member holding Level 2 and not Level 1.
C7_Level2Granted ==
    \A p \in Pairs :
        Level1To2(p) ~>
            \/ (2 \in memberRoles[p] /\ 1 \notin memberRoles[p])
            \/ p \in failed
            \/ p \notin present
            \/ LevelChanges(0, applied[p]) > 1

\* adjust(+120) from xp = 0 of a member holding Level 1: reconciled.
C7_Witness ==
    \E p \in Pairs :
        /\ applied[p] = <<120>>
        /\ initRoles[p] = {1}
        /\ NoTaskFor(p) /\ p \notin failed /\ p \in present
        /\ memberRoles[p] = {2}

\* C8: an adjust that takes effect creates one task, carrying the level stored
\* before and the level computed after, when the two differ, and none when
\* they are equal; nothing else creates a task.
C8_TaskIffLevelChanged ==
    [][IF calls' = calls + 1 /\ lastAdjust'.ok
       THEN LET p == <<lastAdjust'.user_id, lastAdjust'.guild_id>>
                old == LevelOf(users, p)
                new == LevelFor(XpOf(users', p))
            IN  tasks' = IF old # new
                         THEN Append(tasks, [user_id |-> p[1], guild_id |-> p[2],
                                             old_level |-> old, new_level |-> new,
                                             pc |-> "start"])
                         ELSE tasks
       ELSE tasks' = tasks]_vars

\* A task for a level going down, one for a level going up, and an adjust
\* that took effect and created none.
C8_Witness ==
    /\ \E i \in 1..Len(tasks) : tasks[i].old_level > tasks[i].new_level
    /\ \E i \in 1..Len(tasks) : tasks[i].old_level < tasks[i].new_level
    /\ \E p \in Pairs :
           Len(applied[p]) > LevelChanges(0, applied[p]) /\ applied[p] # <<>>

\* C9 as claimed: a reconciliation waiting for the removal of the old role
\* does not end there; it goes on to the grant of the new role.
C9_RemovalFailureGoesOn ==
    [][\A i \in 1..Len(tasks) :
           tasks[i].pc = "removing" => tasks' # EndTask(i)]_vars

\* C10: a step of a reconciliation task (any step that is not a call of
\* update_user_xp) leaves the table of XpRecords as it is.
C10_LedgerUntouched == [][calls' = calls => users' = users]_vars

\* Reconciliations have ended by a failed platform call and by a grant, and
\* the record that triggered one is at its new level.
C10_Witness ==
    /\ ended \cap {"remove failed", "add failed"} # {}
    /\ "granted" \in ended
    /\ \E r \in users : r.level # 1

\* C11: when a bulk role assignment of a guild has completed, no call of
\* update_user_xp and no reconciliation task of the guild having run beside it
\* and no platform call having failed, every member of the guild who is
\* resolved and has a ledger row holds the tier role of the stored level and
\* no other tier role.
C11_AssignAllRepairs ==
    \A g \in Guilds :
        (finished[g].n >= 1 /\ finished[g].clean /\ finished[g].calls = calls) =>
            \A m \in Members :
                (<<m, g>> \in finished[g].present /\ RowsOf(users, <<m, g>>) # {})
                    => finished[g].roles[m] = {LevelOf(users, <<m, g>>)}

\* C12: when two bulk role assignments of a guild have completed one after
\* the other, with no call of update_user_xp, no reconciliation task, no other
\* bulk assignment, no role created and no member gone from the start of the
\* first to the end of the second, the members of the guild hold after the
\* second the roles they held after the first.
C12_AssignAllIdempotent ==
    \A g \in Guilds : finished[g].quiet => finished[g].roles = finished[g].before

\* Two bulk assignments of a guild, one after the other and alone: the first
\* took a wrong tier role from a member and gave the one of the stored level.
C12_Witness ==
    \E g \in Guilds, m \in Members :
        /\ finished[g].n = 2 /\ finished[g].quiet
        /\ initRoles[<<m, g>>] # {}
        /\ finished[g].roles[m] = {LevelOf(users, <<m, g>>)}
        /\ finished[g].roles[m] # initRoles[<<m, g>>]

\* C13: however the calls of create_level_roles interleave, a guild never has
\* two roles of one tier name "Level 1" .. "Level 10".
C13_OneRolePerTier == \A g \in Guilds : extraRoles[g] = {}

\* The settings in effect for guild g in memory, and the persisted row of g.
InEffect(ping, channel, assignments, g) ==
    [quest_ping_role_id |-> ping, quest_channel_id |-> channel,
     role_xp_assignments |-> IF g \in DOMAIN assignments THEN assignments[g]
                             ELSE <<>>]

SettingsRow(rows, g) == {r \in rows : r.guild_id = g}

\* C14: a settings command changes the settings of one guild only: there is
\* a guild A such that for every other guild B the quest ping role, the quest
\* channel and the role-to-XP map in effect for B in memory, and the
\* persisted row of B, are after the command what they were before.
C14_SettingsPerGuild ==
    [][\E A \in Guilds : \A B \in Guilds \ {A} :
           /\ InEffect(quest_ping_role_id', quest_channel_id',
                       role_xp_assignments', B)
                  = InEffect(quest_ping_role_id, quest_channel_id,
                             role_xp_assignments, B)
           /\ SettingsRow(settings', B) = SettingsRow(settings, B)]_vars

\* C15: for every guild that has a persisted settings row, the quest ping
\* role, the quest channel and the role-to-XP map in effect for it in memory
\* are those of its row (every mutation is one step: none is ever in progress).
C15_CacheMatchesStore ==
    \A r \in settings :
        InEffect(quest_ping_role_id, quest_channel_id, role_xp_assignments,
                 r.guild_id)
            = [quest_ping_role_id |-> r.quest_ping_role_id,
               quest_channel_id |-> r.quest_channel_id,
               role_xp_assignments |-> r.role_xp_assignments]

\* C16: a guild with no persisted settings row (none was ever saved for it)
\* has no quest ping role, no quest channel and an empty role-to-XP map in
\* effect.
C16_UnsavedGuildHasDefaults ==
    \A g \in Guilds :
        SettingsRow(settings, g) = {} =>
            InEffect(quest_ping_role_id, quest_channel_id, role_xp_assignments, g)
                = [quest_ping_role_id |-> 0, quest_channel_id |-> 0,
                   role_xp_assignments |-> <<>>]

\* The contributions of section 4.4 of the specification, for the roles held.
SpecAutoRoleXp(roles) ==
    5 * Cardinality({r \in roles : NameHasBadge(r)})
        + 5 * Cardinality({r \in roles : NameHasStreak(r)})

SpecTotalXp(t, assignments) ==
    Max(t.base, LevelRoleXp(t.level_names)
                    + CustomRoleXp(assignments, t.guild_id, t.roles)
                    + SpecAutoRoleXp(t.roles))

\* C17: the total returned for a resolvable member is max(baseXp, levelRoleXp
\* + customRoleXp + autoRoleXp) of the stored xp, the roles held and the
\* guild's role-to-XP map.
C17_TotalIsMax ==
    (shown.user_id # 0 /\ shown.ok /\ shown.resolved) =>
        shown.total = SpecTotalXp(shown, role_xp_assignments)

\* C18: the auto role XP of a total is 5 for each held role whose name
\* contains "badge" plus 5 for each held role whose name contains "streak", a
\* role whose name contains both counting twice.
C18_AutoRoleXp ==
    (shown.user_id # 0 /\ shown.ok /\ shown.resolved) =>
        shown.auto_role_xp = SpecAutoRoleXp(shown.roles)

\* C19: a total that is returned is at least the stored xp of the member, and
\* is not negative.
C19_TotalAtLeastBase ==
    (shown.user_id # 0 /\ shown.ok) =>
        /\ shown.total >= shown.base
        /\ shown.total >= 0

\* A total of a member whose assigned roles sum to a negative amount, which
\* is the stored xp, and the stored xp is positive.
C19_Witness ==
    /\ shown.ok
    /\ shown.custom_role_xp < 0
    /\ shown.base > 0
    /\ shown.total = shown.base

\* C20: a call of calculate_total_user_xp leaves the table of XpRecords as it
\* is, for a member with a row and for a member without one.
C20_TotalWritesNothing == [][shown' # shown => users' = users]_vars

NoQuestRecord(msg) == ~\E q \in quests : q.message_id = msg

\* C23: a completion signal on a message that has no quest record (a message
\* that never was an announcement, an announcement not stored, a removed
\* quest) creates and changes no XpRecord and no quest record, and spawns no
\* reconciliation.
C23_SignalWithoutQuestIsNoOp ==
    [][\A msg \in Messages \cup ChatMessages, user \in Members :
           (NoQuestRecord(msg) /\ on_reaction_add(msg, user)) =>
               /\ users' = users /\ durable' = durable
               /\ quests' = quests
               /\ tasks' = tasks
               /\ applied' = applied]_vars

\* A member was awarded for a quest, the quest was removed, and the member's
\* next signal on its message found no record and was answered by nothing.
C23_Witness ==
    /\ sent.handler = "on_reaction_add" /\ sent.text = ""
    /\ sent.arg \in Messages
    /\ NoQuestRecord(sent.arg)
    /\ signals[<<sent.arg, sent.user_id>>] = <<"Awarded">>
    /\ XpOf(users, <<sent.user_id, posted[sent.arg]>>) = QuestReward

\* C24: no member id is twice in the completed_users of a quest record.
C24_CompletedOnce ==
    \A q \in quests :
        \A i, j \in 1..Len(q.completed_users) :
            q.completed_users[i] = q.completed_users[j] => i = j

\* Two members have completed a quest and one of them has signalled again.
C24_Witness ==
    \E q \in quests :
        /\ Len(q.completed_users) = 2
        /\ \E m \in Members :
               Len(signals[<<q.message_id, m>>]) = 2
               /\ signals[<<q.message_id, m>>][2] = "AlreadyCompleted"

\* C30 as claimed: remove_quest with a message id that matches no quest
\* record does not answer that the quest was removed, and changes no quest
\* record, no XpRecord and no settings.
C30_UnknownQuestIsError ==
    [][\A message_id \in Messages \cup ChatMessages :
           (NoQuestRecord(message_id) /\ remove_quest(message_id)) =>
               /\ sent'.text # "Quest removed successfully!"
               /\ quests' = quests /\ users' = users /\ settings' = settings
               /\ quest_ping_role_id' = quest_ping_role_id
               /\ quest_channel_id' = quest_channel_id
               /\ role_xp_assignments' = role_xp_assignments]_vars

\* C29: set_quest_ping with the id of no role of the guild, and
\* set_quest_channel with the id of no channel, answer not-found and leave the
\* settings in memory and every persisted settings row as they were.
C29_NotFoundChangesNothing ==
    [][/\ \A g \in Guilds, role_id \in PingRoleIds :
              (RoleGuild(role_id) # g /\ set_quest_ping(g, role_id)) =>
                  /\ sent'.text = "Role not found!"
                  /\ settings' = settings
                  /\ quest_ping_role_id' = quest_ping_role_id
                  /\ quest_channel_id' = quest_channel_id
                  /\ role_xp_assignments' = role_xp_assignments
       /\ \A g \in Guilds, channel_id \in ChannelIds :
              (channel_id \notin Channels /\ set_quest_channel(g, channel_id)) =>
                  /\ sent'.text = "Channel not found!"
                  /\ settings' = settings
                  /\ quest_ping_role_id' = quest_ping_role_id
                  /\ quest_channel_id' = quest_channel_id
                  /\ role_xp_assignments' = role_xp_assignments]_vars

\* A guild has saved settings, and its latest command, a set_quest_ping with
\* the id of a role of another guild, was answered not-found.
C29_Witness ==
    /\ sent.handler = "set_quest_ping" /\ sent.text = "Role not found!"
    /\ RoleGuild(sent.arg) # sent.guild_id
    /\ \E r \in settings : r.guild_id = sent.guild_id /\ r.quest_channel_id # 0
    /\ quest_ping_role_id # sent.arg

\* C21 as claimed: a total computed for a member get_member does not resolve
\* is returned, and is the stored xp of the member's record (0 when there is
\* none), whatever roles the member holds.
C21_FallbackIsStoredXp ==
    (shown.user_id # 0 /\ ~shown.resolved) =>
        /\ shown.ok
        /\ shown.total = XpOf(users, <<shown.user_id, shown.guild_id>>)

\* The case of C21 in which the call returns: the total is the stored xp.
C21_FallbackWhenReturned ==
    (shown.user_id # 0 /\ ~shown.resolved /\ shown.ok) =>
        /\ shown.total = XpOf(users, <<shown.user_id, shown.guild_id>>)
        /\ shown.level_role_xp = 0 /\ shown.custom_role_xp = 0
        /\ shown.auto_role_xp = 0

\* C25: a call of get_leaderboard for a guild and a limit returns at most
\* limit rows, each a row of the guild, in non-increasing order of xp, and a
\* call of it, and the leaderboard command, change no XpRecord, no quest
\* record and no settings.
C25_Leaderboard ==
    [][\A g \in Guilds :
        /\ \A limit \in Limits :
               get_leaderboard_call(g, limit) =>
                   LET data == board'.leaderboard_data
                   IN  /\ Len(data) <= limit
                       /\ \A i \in 1..Len(data) :
                              \E r \in users :
                                  /\ r.guild_id = g
                                  /\ data[i] = <<r.user_id, r.xp, r.level>>
                       /\ \A i, j \in 1..Len(data) :
                              i < j => data[i][2] >= data[j][2]
                       /\ users' = users /\ durable' = durable
                       /\ quests' = quests /\ settings' = settings
                       /\ quest_ping_role_id' = quest_ping_role_id
                       /\ quest_channel_id' = quest_channel_id
                       /\ role_xp_assignments' = role_xp_assignments
        /\ \A other \in BoardRoles :
               leaderboard(g, other) =>
                   /\ users' = users /\ durable' = durable
                   /\ quests' = quests /\ settings' = settings
                   /\ quest_ping_role_id' = quest_ping_role_id
                   /\ quest_channel_id' = quest_channel_id
                   /\ role_xp_assignments' = role_xp_assignments]_vars

\* A call with limit 1 for a guild that has two records: the one returned is
\* the record of the greater xp.
C25_Witness ==
    /\ board.limit = 1
    /\ Len(board.leaderboard_data) = 1
    /\ Cardinality({r \in users : r.guild_id = board.guild_id}) = 2
    /\ \A r \in users : r.guild_id = board.guild_id
                           => r.xp <= board.leaderboard_data[1][2]

\* levelRoleXp of the specification for a member who holds the roles named
\* "Level " + name for the name in names: the threshold of the highest tier
\* number n in 1..10 whose role the member holds, 0 when there is none.
SpecLevelRoleXp(names) ==
    LET tiers == {n \in Levels : LevelName(n) \in names}
    IN  IF tiers = {} THEN 0
        ELSE LEVEL_THRESHOLDS[CHOOSE n \in tiers : \A k \in tiers : k <= n]

\* C22: in a total computed for a resolved member, level_role_xp is the
\* threshold of the highest tier in 1..10 whose role the member holds, 0 when
\* the member holds none; a role named "Level k" for k outside 1..10 adds
\* nothing to it.
C22_LevelRoleXp ==
    (shown.user_id # 0 /\ shown.ok /\ shown.resolved) =>
        shown.level_role_xp = SpecLevelRoleXp(shown.level_names)

\* A member who holds the roles of two tiers above 1, and the roles named
\* "Level 0" and "Level 11": level_role_xp is the threshold of the higher
\* tier, and it is not 0.
C22_Witness ==
    /\ shown.user_id # 0 /\ shown.ok /\ shown.resolved
    /\ {LevelName(2), LevelName(3), <<"0">>, <<"1", "1">>} \subseteq shown.level_names
    /\ shown.level_role_xp = LEVEL_THRESHOLDS[3]
    /\ shown.level_role_xp > 0

\* LevelTable.thresholdFor of the specification.
thresholdFor == <<0, 100, 500, 1200, 2200, 3500, 5100, 7000, 9200, 11700>>

\* The stats check_xp sent for a member whose total is xp.
StatsOf(xp) == sent.handler = "check_xp" /\ sent.text = "XP Stats" /\ sent.xp = xp

\* C26: the level computed for an xp >= 0 is the greatest level in 1..10
\* whose threshold is at most xp; it is in 1..10, and it is 10 for every
\* xp >= 11700.
C26_GreatestLevel ==
    (StatsOf(sent.xp) /\ sent.xp >= 0) =>
        /\ sent.level \in 1..10
        /\ thresholdFor[sent.level] <= sent.xp
        /\ \A k \in 1..10 : thresholdFor[k] <= sent.xp => k <= sent.level
        /\ sent.xp >= 11700 => sent.level = 10

\* The level of an xp above the last threshold is 10.
C26_Witness == StatsOf(sent.xp) /\ sent.xp > 11700 /\ sent.level = 10

\* C27: the level computed for the threshold of tier n is n, for n in 1..10,
\* and the level computed for the threshold of tier n less 1 is n - 1, for n
\* in 2..10.
C27_ThresholdIsFirstXp ==
    /\ \A n \in 1..10 : StatsOf(thresholdFor[n]) => sent.level = n
    /\ \A n \in 2..10 : StatsOf(thresholdFor[n] - 1) => sent.level = n - 1

\* The xp just below the threshold of tier 5 has level 4.
C27_Witness == StatsOf(thresholdFor[5] - 1) /\ sent.level = 4

\* C28: a command whose adjustment or whose save of the settings fails at
\* the database answers with the error message, never with its message of
\* success, and after a failed adjustment the record of the member has the xp
\* and the level it had before the command.
C28_StoreFailureSurfaced ==
    [][/\ \A m \in Members, g \in Guilds, a \in Amounts, at \in FailurePoints :
              (add_xp_fails(m, g, a, at) \/ remove_xp_fails(m, g, a, at)) =>
                  /\ sent'.text = ErrorText
                  /\ XpOf(users', <<m, g>>) = XpOf(users, <<m, g>>)
                  /\ LevelOf(users', <<m, g>>) = LevelOf(users, <<m, g>>)
       /\ \A g \in Guilds, role_id \in PingRoleIds, at \in FailurePoints :
              set_quest_ping_fails(g, role_id, at) => sent'.text = ErrorText]_vars

\* The part of C28 on what is reported: a command that failed at the database
\* answers with the error message.
C28_FailureAnswered ==
    [][/\ \A m \in Members, g \in Guilds, a \in Amounts, at \in FailurePoints :
              (add_xp_fails(m, g, a, at) \/ remove_xp_fails(m, g, a, at)) =>
                  sent'.text = ErrorText
       /\ \A g \in Guilds, role_id \in PingRoleIds, at \in FailurePoints :
              set_quest_ping_fails(g, role_id, at) => sent'.text = ErrorText]_vars

\* C31: the tier role a reconciliation task grants is the role of the level
\* the ledger holds for the member when the grant is made, whatever levels
\* the task was created with.
C31_GrantsCurrentLevel ==
    [][\A i \in 1..Len(tasks) :
          ReconcileAdded(i) =>
              tasks[i].new_level =
                  LevelOf(users, <<tasks[i].user_id, tasks[i].guild_id>>)]_vars

\* The announcement msg is visible and add_quest has not stored its record yet.
Announced(msg) == \E a \in announcing : a.message_id = msg

\* The quest of the announcement msg has not been removed: its record is
\* stored, or add_quest is still to store it.
NotRemoved(msg) == Announced(msg) \/ ~NoQuestRecord(msg)

\* The member is in the completed_users of no record of the message.
NotYetCompleted(msg, user) ==
    \A q \in quests : q.message_id = msg => NotCompleted(q.completed_users, user)

\* C32: from the moment the announcement is posted, a completion signal on it
\* by a member who has not completed the quest, the quest not removed, is
\* Awarded; none is dropped because no record is found.
C32_CompletableOnceVisible ==
    [][\A msg \in Messages, user \in Members :
           (/\ posted[msg] # 0
            /\ NotRemoved(msg)
            /\ NotYetCompleted(msg, user)
            /\ on_reaction_add(msg, user)) =>
               signals'[<<msg, user>>] = Append(signals[<<msg, user>>], "Awarded")]_vars

\* C33: in every state, a member whose ledger got the reward of a quest is
\* in the completed_users of the record of that quest.
C33_RewardAndMarkTogether ==
    \A q \in quests, m \in Members :
        (\E i \in 1..Len(applied[<<m, MessageGuild(q.message_id)>>]) :
             applied[<<m, MessageGuild(q.message_id)>>][i] = QuestReward)
            => ~NotCompleted(q.completed_users, m)

\* The completion signal of the member on the message was Awarded in this step.
AwardedNow(msg, user) ==
    /\ on_reaction_add(msg, user)
    /\ signals'[<<msg, user>>] = Append(signals[<<msg, user>>], "Awarded")

\* C34: when a completion is Awarded, the record of the member in the guild
\* stored in the quest record (guild_id) gets the 50 XP.
C34_RewardInQuestGuild ==
    [][\A msg \in Messages, user \in Members :
           AwardedNow(msg, user) =>
               \A q \in SelectQuest(quests, msg) :
                   XpOf(users', <<user, q.guild_id>>) =
                       XpOf(users, <<user, q.guild_id>>) + QuestReward]_vars

\* The case of C34 in which the announcement was sent to a channel of the
\* guild of the command.
C34_RewardWhenPostedInGuild ==
    [][\A msg \in Messages, user \in Members :
           AwardedNow(msg, user) =>
               \A q \in SelectQuest(quests, msg) :
                   posted[msg] = q.guild_id =>
                       XpOf(users', <<user, q.guild_id>>) =
                           XpOf(users, <<user, q.guild_id>>) + QuestReward]_vars

\* The role-to-XP map of the guild (none: the empty map), and the roles of a
\* set that have an amount in it.
MapOf(g) ==
    IF g \in DOMAIN role_xp_assignments THEN role_xp_assignments[g] ELSE <<>>

Mapped(g, roles) == {r \in roles : r \in DOMAIN MapOf(g)}

\* The step adjusted the ledger once, for the member in the guild by the
\* amount of the role r, and left every other record as it was.
OneAward(m, g, r) ==
    /\ calls' = calls + 1
    /\ XpOf(users', <<m, g>>) = Max(0, XpOf(users, <<m, g>>) + MapOf(g)[r])
    /\ \A p \in Pairs \ {<<m, g>>} : RowsOf(users', p) = RowsOf(users, p)

\* The step adjusted nothing.
NoAward == calls' = calls /\ users' = users

\* What the handler of the role change does up to its first await, as the
\* sentence has it.
EventAsSaid(m, g, before, after) ==
    IF Mapped(g, after \ before) = {} THEN NoAward /\ updates' = updates
    ELSE \E r \in Mapped(g, after \ before) :
            /\ OneAward(m, g, r)
            /\ \E h \in updates' :
                   /\ h.user_id = m /\ h.guild_id = g
                   /\ h.pending = (after \ before) \ {r}

\* What the handler h does when it goes on, as the sentence has it.
ResumeAsSaid(h) ==
    IF Mapped(h.guild_id, h.pending) = {} THEN NoAward /\ updates' = updates \ {h}
    ELSE \E r \in Mapped(h.guild_id, h.pending) :
            /\ OneAward(h.user_id, h.guild_id, r)
            /\ \E h2 \in updates' :
                   /\ h2.user_id = h.user_id
                   /\ h2.guild_id = h.guild_id
                   /\ h2.pending = h.pending \ {r}

\* C35: the handler of a role change adjusts the ledger once for each role
\* the change added that has an amount in the map of the guild, by that
\* amount, one role at a time until none is left; a change that added no
\* such role (roles held before, roles without an amount, roles removed, a
\* guild without a map) adjusts nothing.
C35_OncePerAssignedRole ==
    [][/\ \A m \in Members, g \in Guilds, change \in GrantChanges :
              on_member_update_event(m, g, change[1], change[2]) =>
                  EventAsSaid(m, g, change[1], change[2])
       /\ \A h \in updates :
              on_member_update_resume(h) => ResumeAsSaid(h)
       /\ \A h \in updates :
              on_member_update_fails(h) => Mapped(h.guild_id, h.pending) = {}]_vars

\* The member has no record in another guild, so that the record of the
\* member in guild g can be written.
Insertable(m, g) == \A row \in users : row.user_id = m => row.guild_id = g

\* The same for the members whose record can be written, in the handlers
\* that are not stopped by a failure of the platform.
C35_OncePerAssignedRoleWhenInsertable ==
    [][/\ \A m \in Members, g \in Guilds, change \in GrantChanges :
              on_member_update_event(m, g, change[1], change[2])
                  /\ Insertable(m, g) =>
                      EventAsSaid(m, g, change[1], change[2])
       /\ \A h \in updates :
              on_member_update_resume(h) /\ Insertable(h.user_id, h.guild_id) =>
                  ResumeAsSaid(h)]_vars

\* The bulk assignment a has run with no call of update_user_xp, no
\* reconciliation task of the guild and no other bulk assignment beside it.
RanAlone(a) ==
    a.alone /\ a.idle /\ a.calls0 = calls /\ NoTaskIn(a.guild_id)

\* Member m of the guild is resolved, has a ledger row, and the guild has the
\* tier role of the stored level.
Reconcilable(m, g) ==
    /\ <<m, g>> \in present
    /\ RowsOf(users, <<m, g>>) # {}
    /\ LevelOf(users, <<m, g>>) \in guildRoles[g]

\* The members whose rows the loop of a has still to handle, the one in hand
\* among them.
Remaining(a) == {a.rest[i][1] : i \in 1..Len(a.rest)}

\* C36: when a platform call of a bulk assignment fails for one member, every
\* other member of the guild who is resolved and has a ledger row (the guild
\* having the tier role of the stored level, and nothing else having run
\* beside the assignment) holds the tier role of the stored level and no other
\* once the handler has ended.
C36_FailureSkipsOneMember ==
    [][\A a \in assigning :
           AssignFails(a) /\ RanAlone(a) =>
               \A m \in Members \ {Head(a.rest)[1]} :
                   Reconcilable(m, a.guild_id) =>
                       memberRoles'[<<m, a.guild_id>>]
                           = {LevelOf(users, <<m, a.guild_id>>)}]_vars

\* The members whose rows the loop had handled before the platform call
\* failed hold the tier role of the stored level and no other.
C36_HandledBeforeFailure ==
    [][\A a \in assigning :
           AssignFails(a) /\ RanAlone(a) =>
               \A m \in Members \ Remaining(a) :
                   Reconcilable(m, a.guild_id) =>
                       memberRoles'[<<m, a.guild_id>>]
                           = {LevelOf(users, <<m, a.guild_id>>)}]_vars

====
